---- MODULE Spec2Model ----
(***************************************************************************)
(* Model of the avif-serialize muxer: Aviffy::make_boxes builds the box     *)
(* tree (src/src/lib.rs), AvifFile::write resolves the iloc / stco offsets  *)
(* and emits the bytes (src/src/boxes.rs).  Every box has a len operator    *)
(* and a write operator, translated separately from the code, so that       *)
(* their agreement is something the model checker decides.                  *)
(***************************************************************************)
EXTENDS Integers, Sequences, FiniteSets, TLC

(***************************************************************************)
(* Bounds of the explored inputs.                                          *)
(***************************************************************************)
MaxPayload == 2
MaxFrames == 2
MaxRunFrames == 5
MaxSyncFrames == 4
MaxCalls == 2
MaxClock == 1

(***************************************************************************)
(* State.  aviffy is the Aviffy value, args the arguments of the call in   *)
(* progress, file its AvifFile, pc the position in the call, out the bytes *)
(* the sink holds, result the value returned.  clock is the wall clock of  *)
(* the machine and returned the record of the calls that have returned.    *)
(***************************************************************************)
VARIABLES aviffy, args, file, pc, out, result, clock, returned

(***************************************************************************)
(* Fixed-width integers.  A u32 whose value can be large is held as two    *)
(* 16-bit limbs [hi, lo] and a u64 as two u32 [hi, lo], so that wrapping,  *)
(* truncation (as u32, as u16) and overflow behave as in the program.      *)
(* Quantities that are small by construction (lengths, counts, ids) are    *)
(* plain naturals.                                                         *)
(***************************************************************************)
u32_of(n) == [hi |-> (n \div 65536) % 65536, lo |-> n % 65536]
u32_to_nat(a) == a.hi * 65536 + a.lo
u32_add(a, b) == [val |-> [hi |-> (a.hi + b.hi + ((a.lo + b.lo) \div 65536)) % 65536, lo |-> (a.lo + b.lo) % 65536], overflow |-> (a.hi + b.hi + ((a.lo + b.lo) \div 65536)) >= 65536]
u32_shl16(a) == [hi |-> a.lo, lo |-> 0]
u32_as_u16(a) == a.lo
u32_MAX == [hi |-> 65535, lo |-> 65535]
u64_of(n) == [hi |-> u32_of(0), lo |-> u32_of(n)]
u64_as_u32(d) == d.lo
u64_add(a, b) == [val |-> [hi |-> u32_add(u32_add(a.hi, b.hi).val, u32_of(IF u32_add(a.lo, b.lo).overflow THEN 1 ELSE 0)).val, lo |-> u32_add(a.lo, b.lo).val], overflow |-> u32_add(a.hi, b.hi).overflow \/ u32_add(u32_add(a.hi, b.hi).val, u32_of(IF u32_add(a.lo, b.lo).overflow THEN 1 ELSE 0)).overflow]
u64_MAX == [hi |-> u32_MAX, lo |-> u32_MAX]

(***************************************************************************)
(* Option<T> is a sequence of length 0 (None) or 1 (Some).                 *)
(***************************************************************************)
None == <<>>
Some(x) == <<x>>
IsSome(o) == Len(o) = 1
Unwrap(o) == o[1]

RECURSIVE SumSeq(_)
SumSeq(s) == IF s = <<>> THEN 0 ELSE Head(s) + SumSeq(Tail(s))

RECURSIVE Flatten(_)
Flatten(ss) == IF ss = <<>> THEN <<>> ELSE Head(ss) \o Flatten(Tail(ss))

MapSeq(s, F(_)) == [i \in 1..Len(s) |-> F(s[i])]

(***************************************************************************)
(* Four-character codes and strings, as the ASCII bytes the code emits.    *)
(***************************************************************************)
FourCC_ftyp == <<102, 116, 121, 112>>
FourCC_meta == <<109, 101, 116, 97>>
FourCC_iinf == <<105, 105, 110, 102>>
FourCC_infe == <<105, 110, 102, 101>>
FourCC_hdlr == <<104, 100, 108, 114>>
FourCC_iprp == <<105, 112, 114, 112>>
FourCC_ipco == <<105, 112, 99, 111>>
FourCC_auxC == <<97, 117, 120, 67>>
FourCC_pixi == <<112, 105, 120, 105>>
FourCC_ispe == <<105, 115, 112, 101>>
FourCC_ipma == <<105, 112, 109, 97>>
FourCC_iref == <<105, 114, 101, 102>>
FourCC_colr == <<99, 111, 108, 114>>
FourCC_nclx == <<110, 99, 108, 120>>
FourCC_av1C == <<97, 118, 49, 67>>
FourCC_pitm == <<112, 105, 116, 109>>
FourCC_iloc == <<105, 108, 111, 99>>
FourCC_mdat == <<109, 100, 97, 116>>
FourCC_moov == <<109, 111, 111, 118>>
FourCC_mvhd == <<109, 118, 104, 100>>
FourCC_trak == <<116, 114, 97, 107>>
FourCC_tkhd == <<116, 107, 104, 100>>
FourCC_tref == <<116, 114, 101, 102>>
FourCC_mdia == <<109, 100, 105, 97>>
FourCC_mdhd == <<109, 100, 104, 100>>
FourCC_minf == <<109, 105, 110, 102>>
FourCC_vmhd == <<118, 109, 104, 100>>
FourCC_dinf == <<100, 105, 110, 102>>
FourCC_dref == <<100, 114, 101, 102>>
FourCC_url == <<117, 114, 108, 32>>
FourCC_stbl == <<115, 116, 98, 108>>
FourCC_stsd == <<115, 116, 115, 100>>
FourCC_ccst == <<99, 99, 115, 116>>
FourCC_auxi == <<97, 117, 120, 105>>
FourCC_stts == <<115, 116, 116, 115>>
FourCC_stsc == <<115, 116, 115, 99>>
FourCC_stsz == <<115, 116, 115, 122>>
FourCC_stco == <<115, 116, 99, 111>>
FourCC_stss == <<115, 116, 115, 115>>
FourCC_av01 == <<97, 118, 48, 49>>
FourCC_auxl == <<97, 117, 120, 108>>
FourCC_prem == <<112, 114, 101, 109>>
FourCC_avif == <<97, 118, 105, 102>>
FourCC_avis == <<97, 118, 105, 115>>
FourCC_mif1 == <<109, 105, 102, 49>>
FourCC_miaf == <<109, 105, 97, 102>>
FourCC_pict == <<112, 105, 99, 116>>
FourCC_auxv == <<97, 117, 120, 118>>
Str_Color == <<67, 111, 108, 111, 114>>
Str_Alpha == <<65, 108, 112, 104, 97>>
Str_avifser == <<97, 118, 105, 102, 115, 101, 114>>
Str_alpha_urn == <<117, 114, 110, 58, 109, 112, 101, 103, 58, 109, 112, 101, 103, 66, 58, 99, 105, 99, 112, 58, 115, 121, 115, 116, 101, 109, 115, 58, 97, 117, 120, 105, 108, 105, 97, 114, 121, 58, 97, 108, 112, 104, 97>>
test_img == <<97, 118, 49, 50, 51, 53, 54, 97, 98, 99>>
test_a == <<97, 108, 112, 104, 97>>

(***************************************************************************)
(* Writer: big-endian fixed-width integers and the two header shapes.      *)
(* new_box(len) followed by basic_box(typ) emits the 32-bit size and the   *)
(* type; full_box adds one version byte and three flag bytes.              *)
(***************************************************************************)
Writer_u8(v) == <<v % 256>>
Writer_u16(v) == <<(v \div 256) % 256, v % 256>>
Writer_u32(v) == <<(v \div 16777216) % 256, (v \div 65536) % 256, (v \div 256) % 256, v % 256>>
Writer_u32w(a) == Writer_u16(a.hi) \o Writer_u16(a.lo)
Writer_u64w(d) == Writer_u32w(d.hi) \o Writer_u32w(d.lo)
Writer_basic_box(len, typ) == Writer_u32(len) \o typ
Writer_full_box(len, typ, version, flags) == Writer_basic_box(len, typ) \o <<version % 256, (flags \div 65536) % 256, (flags \div 256) % 256, flags % 256>>

(* Reading back a big-endian u32 at 0-based position pos of a byte string. *)
ReadU32(bytes, pos) == bytes[pos + 1] * 16777216 + bytes[pos + 2] * 65536 + bytes[pos + 3] * 256 + bytes[pos + 4]
Slice(bytes, off, n) == [i \in 1..n |-> bytes[off + i]]

BASIC_BOX_SIZE == 8
FULL_BOX_SIZE == BASIC_BOX_SIZE + 4

(***************************************************************************)
(* Enumerated colour codes (opaque numeric codes of the constants table).  *)
(***************************************************************************)
ColorPrimaries_Bt709 == 1
ColorPrimaries_Bt2020 == 9
TransferCharacteristics_Srgb == 13
TransferCharacteristics_Bt709 == 1
MatrixCoefficients_Bt601 == 6
MatrixCoefficients_Bt709 == 1

(***************************************************************************)
(* Boxes of the meta box.                                                  *)
(***************************************************************************)
FtypBox_len(b) == BASIC_BOX_SIZE + 4 + 4 + 4 * Len(b.compatible_brands)
FtypBox_write(b) == Writer_basic_box(FtypBox_len(b), FourCC_ftyp) \o b.major_brand \o Writer_u32(b.minor_version) \o Flatten(b.compatible_brands)

InfeBox_len(b) == FULL_BOX_SIZE + 2 + 2 + 4 + Len(b.name) + 1
InfeBox_write(b) == Writer_full_box(InfeBox_len(b), FourCC_infe, 2, 0) \o Writer_u16(b.id) \o Writer_u16(0) \o b.typ \o b.name \o Writer_u8(0)

IinfBox_len(b) == FULL_BOX_SIZE + 2 + SumSeq(MapSeq(b.items, InfeBox_len))
IinfBox_write(b) == Writer_full_box(IinfBox_len(b), FourCC_iinf, 0, 0) \o Writer_u16(Len(b.items)) \o Flatten(MapSeq(b.items, InfeBox_write))

HdlrBox_len(b) == FULL_BOX_SIZE + 20 + Len(b.name) + 1
HdlrBox_write(b) == Writer_full_box(HdlrBox_len(b), FourCC_hdlr, 0, 0) \o Writer_u32(0) \o b.handler_type \o Writer_u32(0) \o Writer_u32(0) \o Writer_u32(0) \o b.name \o Writer_u8(0)

AuxCBox_len(b) == FULL_BOX_SIZE + Len(b.urn) + 1
AuxCBox_write(b) == Writer_full_box(AuxCBox_len(b), FourCC_auxC, 0, 0) \o b.urn \o Writer_u8(0)

PixiBox_len(b) == FULL_BOX_SIZE + 1 + b.channels
PixiBox_write(b) == Writer_full_box(PixiBox_len(b), FourCC_pixi, 0, 0) \o Writer_u8(b.channels) \o Flatten([i \in 1..b.channels |-> Writer_u8(b.depth)])

IspeBox_len(b) == FULL_BOX_SIZE + 4 + 4
IspeBox_write(b) == Writer_full_box(IspeBox_len(b), FourCC_ispe, 0, 0) \o Writer_u32w(b.width) \o Writer_u32w(b.height)

ColrBox_default == [color_primaries |-> ColorPrimaries_Bt709, transfer_characteristics |-> TransferCharacteristics_Srgb, matrix_coefficients |-> MatrixCoefficients_Bt601, full_range_flag |-> TRUE]
ColrBox_len(b) == BASIC_BOX_SIZE + 4 + 2 + 2 + 2 + 1
ColrBox_write(b) == Writer_basic_box(ColrBox_len(b), FourCC_colr) \o FourCC_nclx \o Writer_u16(b.color_primaries) \o Writer_u16(b.transfer_characteristics) \o Writer_u16(b.matrix_coefficients) \o Writer_u8(IF b.full_range_flag THEN 128 ELSE 0)

B2N(flag) == IF flag THEN 1 ELSE 0
Av1CBox_flags1(b) == B2N(b.seq_tier_0) * 128 + B2N(b.high_bitdepth) * 64 + B2N(b.twelve_bit) * 32 + B2N(b.monochrome) * 16 + B2N(b.chroma_subsampling_x) * 8 + B2N(b.chroma_subsampling_y) * 4 + b.chroma_sample_position
Av1CBox_len(b) == BASIC_BOX_SIZE + 4
Av1CBox_write(b) == Writer_basic_box(Av1CBox_len(b), FourCC_av1C) \o <<129, ((b.seq_profile * 32) % 256) + b.seq_level_idx_0, Av1CBox_flags1(b), 0>>

IpcoProp_len(p) == CASE p.kind = "Av1C" -> Av1CBox_len(p.box) [] p.kind = "Pixi" -> PixiBox_len(p.box) [] p.kind = "Ispe" -> IspeBox_len(p.box) [] p.kind = "AuxC" -> AuxCBox_len(p.box) [] p.kind = "Colr" -> ColrBox_len(p.box)
IpcoProp_write(p) == CASE p.kind = "Av1C" -> Av1CBox_write(p.box) [] p.kind = "Pixi" -> PixiBox_write(p.box) [] p.kind = "Ispe" -> IspeBox_write(p.box) [] p.kind = "AuxC" -> AuxCBox_write(p.box) [] p.kind = "Colr" -> ColrBox_write(p.box)

IpcoBox_new == [props |-> <<>>]
IpcoBox_push_ZeroBased(ipco, prop) == [box |-> [props |-> Append(ipco.props, prop)], id |-> Len(ipco.props) % 256]
IpcoBox_push(ipco, prop) == [box |-> [props |-> Append(ipco.props, prop)], id |-> (Len(ipco.props) + 1) % 256]
IpcoBox_len(b) == BASIC_BOX_SIZE + SumSeq(MapSeq(b.props, IpcoProp_len))
IpcoBox_write(b) == Writer_basic_box(IpcoBox_len(b), FourCC_ipco) \o Flatten(MapSeq(b.props, IpcoProp_write))

IpmaEntry_len(e) == 2 + 1 + Len(e.prop_ids)
IpmaEntry_write(e) == Writer_u16(e.item_id) \o Writer_u8(Len(e.prop_ids)) \o Flatten(MapSeq(e.prop_ids, Writer_u8))
IpmaBox_len(b) == FULL_BOX_SIZE + 4 + SumSeq(MapSeq(b.entries, IpmaEntry_len))
IpmaBox_write(b) == Writer_full_box(IpmaBox_len(b), FourCC_ipma, 0, 0) \o Writer_u32(Len(b.entries)) \o Flatten(MapSeq(b.entries, IpmaEntry_write))

IprpBox_len(b) == BASIC_BOX_SIZE + IpcoBox_len(b.ipco) + IpmaBox_len(b.ipma)
IprpBox_write(b) == Writer_basic_box(IprpBox_len(b), FourCC_iprp) \o IpcoBox_write(b.ipco) \o IpmaBox_write(b.ipma)

IrefEntryBox_len(b) == BASIC_BOX_SIZE + 2 + 2 + 2
IrefEntryBox_write(b) == Writer_basic_box(IrefEntryBox_len(b), b.typ) \o Writer_u16(b.from_id) \o Writer_u16(1) \o Writer_u16(b.to_id)
IrefBox_len(b) == FULL_BOX_SIZE + IrefEntryBox_len(b.entry)
IrefBox_write(b) == Writer_full_box(IrefBox_len(b), FourCC_iref, 0, 0) \o IrefEntryBox_write(b.entry)

PitmBox_len(b) == FULL_BOX_SIZE + 2
PitmBox_write(b) == Writer_full_box(PitmBox_len(b), FourCC_pitm, 0, 0) \o Writer_u16(b)

(* IlocOffset::Relative(usize) holds a natural, IlocOffset::Absolute(u32) a u32 *)
Relative(n) == [kind |-> "Relative", n |-> n]
Absolute(n) == [kind |-> "Absolute", n |-> n]
IlocItem_len(i) == 2 + 2 + 0 + 2 + Len(i.extents) * (4 + 4)
IlocBox_len(b) == FULL_BOX_SIZE + 1 + 1 + 2 + SumSeq(MapSeq(b.items, IlocItem_len))
(* the match in IlocBox::write has no value for a Relative offset: it panics *)
IlocBox_write_panics(b) == \E i \in 1..Len(b.items) : \E e \in 1..Len(b.items[i].extents) : b.items[i].extents[e].offset.kind = "Relative"
IlocExtent_write(ex) == Writer_u32w(CASE ex.offset.kind = "Absolute" -> ex.offset.n) \o Writer_u32(ex.len)
IlocItem_write(i) == Writer_u16(i.id) \o Writer_u16(0) \o Writer_u16(Len(i.extents)) \o Flatten(MapSeq(i.extents, IlocExtent_write))
IlocBox_write(b) == Writer_full_box(IlocBox_len(b), FourCC_iloc, 0, 0) \o <<68, 0>> \o Writer_u16(Len(b.items)) \o Flatten(MapSeq(b.items, IlocItem_write))

MetaBox_len(b) == FULL_BOX_SIZE + HdlrBox_len(b.hdlr) + PitmBox_len(b.pitm) + IlocBox_len(b.iloc) + IinfBox_len(b.iinf) + IprpBox_len(b.iprp) + SumSeq(MapSeq(b.iref, IrefBox_len))
MetaBox_write(b) == Writer_full_box(MetaBox_len(b), FourCC_meta, 0, 0) \o HdlrBox_write(b.hdlr) \o PitmBox_write(b.pitm) \o IlocBox_write(b.iloc) \o IinfBox_write(b.iinf) \o Flatten(MapSeq(b.iref, IrefBox_write)) \o IprpBox_write(b.iprp)

MdatBox_len(b) == BASIC_BOX_SIZE + SumSeq(MapSeq(b.data_chunks, Len))
MdatBox_write(b) == Writer_basic_box(MdatBox_len(b), FourCC_mdat) \o Flatten(b.data_chunks)

(***************************************************************************)
(* Boxes of the moov box.                                                  *)
(***************************************************************************)
UNITY_MATRIX == <<65536, 0, 0, 0, 65536, 0, 0, 0, 1073741824>>

MvhdBox_len(b) == FULL_BOX_SIZE + 108
MvhdBox_write(b) == Writer_full_box(MvhdBox_len(b), FourCC_mvhd, 1, 0) \o Writer_u64w(b.creation_time) \o Writer_u64w(b.modification_time) \o Writer_u32w(b.timescale) \o Writer_u64w(b.duration) \o Writer_u32(65536) \o Writer_u16(256) \o Writer_u16(0) \o Writer_u32(0) \o Writer_u32(0) \o Flatten(MapSeq(UNITY_MATRIX, Writer_u32)) \o Writer_u32(0) \o Writer_u32(0) \o Writer_u32(0) \o Writer_u32(0) \o Writer_u32(0) \o Writer_u32(0) \o Writer_u32(b.next_track_id)

TkhdBox_len(b) == FULL_BOX_SIZE + 92
TkhdBox_write(b) == Writer_full_box(TkhdBox_len(b), FourCC_tkhd, 1, 1) \o Writer_u64w(b.creation_time) \o Writer_u64w(b.modification_time) \o Writer_u32(b.track_id) \o Writer_u32(0) \o Writer_u64w(b.duration) \o Writer_u32(0) \o Writer_u32(0) \o Writer_u16(0) \o Writer_u16(0) \o Writer_u16(0) \o Writer_u16(0) \o Flatten(MapSeq(UNITY_MATRIX, Writer_u32)) \o Writer_u32w(b.width) \o Writer_u32w(b.height)

ReftypeBox_len(b) == BASIC_BOX_SIZE + 4
ReftypeBox_write(b) == Writer_basic_box(ReftypeBox_len(b), b.typ) \o Writer_u32(b.to_id)
TrefBox_len(b) == BASIC_BOX_SIZE + ReftypeBox_len(b.ref_type)
TrefBox_write(b) == Writer_basic_box(TrefBox_len(b), FourCC_tref) \o ReftypeBox_write(b.ref_type)

MdhdBox_len(b) == FULL_BOX_SIZE + 32
MdhdBox_write(b) == Writer_full_box(MdhdBox_len(b), FourCC_mdhd, 1, 0) \o Writer_u64w(b.creation_time) \o Writer_u64w(b.modification_time) \o Writer_u32w(b.timescale) \o Writer_u64w(b.duration) \o Writer_u16(21956) \o Writer_u16(0)

VmhdBox_len(b) == FULL_BOX_SIZE + 8
VmhdBox_write(b) == Writer_full_box(VmhdBox_len(b), FourCC_vmhd, 0, 1) \o Writer_u16(0) \o Writer_u16(0) \o Writer_u16(0) \o Writer_u16(0)

UrlBox_len(b) == FULL_BOX_SIZE
UrlBox_write(b) == Writer_full_box(UrlBox_len(b), FourCC_url, 0, 1)
DrefBox_len(b) == FULL_BOX_SIZE + 4 + UrlBox_len(b.url)
DrefBox_write(b) == Writer_full_box(DrefBox_len(b), FourCC_dref, 0, 0) \o Writer_u32(1) \o UrlBox_write(b.url)
DinfBox_len(b) == BASIC_BOX_SIZE + DrefBox_len(b.dref)
DinfBox_write(b) == Writer_basic_box(DinfBox_len(b), FourCC_dinf) \o DrefBox_write(b.dref)

CcstBox_len(b) == FULL_BOX_SIZE + 4
CcstBox_write(b) == Writer_full_box(CcstBox_len(b), FourCC_ccst, 0, 0) \o Writer_u32(B2N(FALSE) * 1073741824 * 2 + B2N(TRUE) * 1073741824 + 15 * 67108864)

AuxiBox_len(b) == FULL_BOX_SIZE + Len(b.aux_track_type) + 1
AuxiBox_write(b) == Writer_full_box(AuxiBox_len(b), FourCC_auxi, 0, 0) \o b.aux_track_type \o Writer_u8(0)

(* SampleEntryBox: boxes.rs declares no colr field; len and write visit config, ccst, auxi *)
SampleEntryBox_len(b) == BASIC_BOX_SIZE + 78 + Av1CBox_len(b.config) + CcstBox_len(b.ccst) + (IF IsSome(b.auxi) THEN AuxiBox_len(Unwrap(b.auxi)) ELSE 0)
SampleEntryBox_write(b) == Writer_basic_box(SampleEntryBox_len(b), b.typ) \o Writer_u8(0) \o Writer_u8(0) \o Writer_u8(0) \o Writer_u8(0) \o Writer_u8(0) \o Writer_u8(0) \o Writer_u16(1) \o Writer_u16(0) \o Writer_u16(0) \o Writer_u32(0) \o Writer_u32(0) \o Writer_u32(0) \o Writer_u16(b.width) \o Writer_u16(b.height) \o Writer_u32(4718592) \o Writer_u32(4718592) \o Writer_u32(0) \o Writer_u16(1) \o <<3, 65, 79, 77, 0, 0, 0, 0, 0, 0, 0, 0, 0, 0, 0, 0, 0, 0, 0, 0, 0, 0, 0, 0, 0, 0, 0, 0, 0, 0, 0, 0>> \o Writer_u16(24) \o Writer_u16(65535) \o Av1CBox_write(b.config) \o CcstBox_write(b.ccst) \o (IF IsSome(b.auxi) THEN AuxiBox_write(Unwrap(b.auxi)) ELSE <<>>)

StsdBox_len(b) == FULL_BOX_SIZE + 4 + SampleEntryBox_len(b.entry)
StsdBox_write(b) == Writer_full_box(StsdBox_len(b), FourCC_stsd, 0, 0) \o Writer_u32(1) \o SampleEntryBox_write(b.entry)

(* stts entries are ArrayVec<u32, 2>: <<sample_count, delta>>, the delta a u32 *)
SttsEntry_write(data) == Writer_u32(data[1]) \o Writer_u32w(data[2])
SttsBox_len(b) == FULL_BOX_SIZE + 4 + (Len(b.sample_delta) * 8)
SttsBox_write(b) == Writer_full_box(SttsBox_len(b), FourCC_stts, 0, 0) \o Writer_u32(Len(b.sample_delta)) \o Flatten(MapSeq(b.sample_delta, SttsEntry_write))

StscBox_len(b) == FULL_BOX_SIZE + 16
StscBox_write(b) == Writer_full_box(StscBox_len(b), FourCC_stsc, 0, 0) \o Writer_u32(1) \o Writer_u32(1) \o Writer_u32(b.samples_per_chunk) \o Writer_u32(1)

StszBox_len(b) == FULL_BOX_SIZE + 8 + (Len(b.entry_size) * 4)
StszBox_write(b) == Writer_full_box(StszBox_len(b), FourCC_stsz, 0, 0) \o Writer_u32(0) \o Writer_u32(b.sample_count) \o Flatten(MapSeq(b.entry_size, Writer_u32w))

StcoBox_len(b) == FULL_BOX_SIZE + 8
StcoBox_write(b) == Writer_full_box(StcoBox_len(b), FourCC_stco, 0, 0) \o Writer_u32(1) \o Writer_u32w(b.chunk_offset)

StssBox_len(b) == FULL_BOX_SIZE + 4 + (Len(b.sample_number) * 4)
StssBox_write(b) == Writer_full_box(StssBox_len(b), FourCC_stss, 0, 0) \o Writer_u32(b.entry_count) \o Flatten(MapSeq(b.sample_number, Writer_u32))

StblBox_len_NoStss(b) == BASIC_BOX_SIZE + StsdBox_len(b.stsd) + SttsBox_len(b.stts) + StscBox_len(b.stsc) + StszBox_len(b.stsz) + StcoBox_len(b.stco)
StblBox_len(b) == BASIC_BOX_SIZE + StsdBox_len(b.stsd) + SttsBox_len(b.stts) + StscBox_len(b.stsc) + StszBox_len(b.stsz) + StcoBox_len(b.stco) + (IF IsSome(b.stss) THEN StssBox_len(Unwrap(b.stss)) ELSE 0)
StblBox_write(b) == Writer_basic_box(StblBox_len(b), FourCC_stbl) \o StsdBox_write(b.stsd) \o SttsBox_write(b.stts) \o StscBox_write(b.stsc) \o StszBox_write(b.stsz) \o StcoBox_write(b.stco) \o (IF IsSome(b.stss) THEN StssBox_write(Unwrap(b.stss)) ELSE <<>>)

MinfBox_len(b) == BASIC_BOX_SIZE + VmhdBox_len(b.vmhd) + DinfBox_len(b.dinf) + StblBox_len(b.stbl)
MinfBox_write(b) == Writer_basic_box(MinfBox_len(b), FourCC_minf) \o VmhdBox_write(b.vmhd) \o DinfBox_write(b.dinf) \o StblBox_write(b.stbl)

MdiaBox_len(b) == BASIC_BOX_SIZE + MdhdBox_len(b.mdhd) + HdlrBox_len(b.hdlr) + MinfBox_len(b.minf)
MdiaBox_write(b) == Writer_basic_box(MdiaBox_len(b), FourCC_mdia) \o MdhdBox_write(b.mdhd) \o HdlrBox_write(b.hdlr) \o MinfBox_write(b.minf)

TrakBox_len_NoTref(b) == BASIC_BOX_SIZE + TkhdBox_len(b.tkhd) + (IF IsSome(b.meta) THEN MetaBox_len(Unwrap(b.meta)) ELSE 0) + MdiaBox_len(b.mdia)
TrakBox_len(b) == BASIC_BOX_SIZE + TkhdBox_len(b.tkhd) + (IF IsSome(b.tref) THEN TrefBox_len(Unwrap(b.tref)) ELSE 0) + (IF IsSome(b.meta) THEN MetaBox_len(Unwrap(b.meta)) ELSE 0) + MdiaBox_len(b.mdia)
TrakBox_write_NoMeta(b) == Writer_basic_box(TrakBox_len(b), FourCC_trak) \o TkhdBox_write(b.tkhd) \o (IF IsSome(b.tref) THEN TrefBox_write(Unwrap(b.tref)) ELSE <<>>) \o MdiaBox_write(b.mdia)
TrakBox_write(b) == Writer_basic_box(TrakBox_len(b), FourCC_trak) \o TkhdBox_write(b.tkhd) \o (IF IsSome(b.tref) THEN TrefBox_write(Unwrap(b.tref)) ELSE <<>>) \o (IF IsSome(b.meta) THEN MetaBox_write(Unwrap(b.meta)) ELSE <<>>) \o MdiaBox_write(b.mdia)

MoovBox_len(b) == BASIC_BOX_SIZE + MvhdBox_len(b.mvhd) + SumSeq(MapSeq(b.tracks, TrakBox_len))
MoovBox_write(b) == Writer_basic_box(MoovBox_len(b), FourCC_moov) \o MvhdBox_write(b.mvhd) \o Flatten(MapSeq(b.tracks, TrakBox_write))

(***************************************************************************)
(* Aviffy::make_boxes.  self is [premultiplied_alpha, colr]; the call's    *)
(* arguments are the record a.  A frame is [duration_in_timescales (u64),  *)
(* sync, size (u32)].                                                      *)
(***************************************************************************)
color_image_id == 1
alpha_image_id == 2
ESSENTIAL_BIT == 128
BitOr(x, bit) == IF (x \div bit) % 2 = 1 THEN x ELSE x + bit

color_config(a) == [seq_profile |-> IF a.depth_bits >= 12 THEN 2 ELSE 1, seq_level_idx_0 |-> 31, seq_tier_0 |-> FALSE, high_bitdepth |-> a.depth_bits >= 10, twelve_bit |-> a.depth_bits >= 12, monochrome |-> FALSE, chroma_subsampling_x |-> FALSE, chroma_subsampling_y |-> FALSE, chroma_sample_position |-> 0]
alpha_config(a) == [seq_profile |-> IF a.depth_bits >= 12 THEN 2 ELSE 0, seq_level_idx_0 |-> 31, seq_tier_0 |-> FALSE, high_bitdepth |-> a.depth_bits >= 10, twelve_bit |-> a.depth_bits >= 12, monochrome |-> TRUE, chroma_subsampling_x |-> TRUE, chroma_subsampling_y |-> TRUE, chroma_sample_position |-> 0]

(* lib.rs 130-163: the color item, its properties and its ipma entry *)
ColorItemInfe == [id |-> color_image_id, typ |-> FourCC_av01, name |-> Str_Color]
ipco_ispe(a) == IpcoBox_push(IpcoBox_new, [kind |-> "Ispe", box |-> [width |-> a.width, height |-> a.height]])
ipco_pixi_3(a) == IpcoBox_push(ipco_ispe(a).box, [kind |-> "Pixi", box |-> [channels |-> 3, depth |-> a.depth_bits]])
ipco_av1c_color(a) == IpcoBox_push(ipco_pixi_3(a).box, [kind |-> "Av1C", box |-> color_config(a)])
colr_is_set_MatrixOnly(self) == self.colr.matrix_coefficients # ColrBox_default.matrix_coefficients
colr_is_set(self) == self.colr # ColrBox_default
ipco_colr(self, a) == IF colr_is_set(self) THEN IpcoBox_push(ipco_av1c_color(a).box, [kind |-> "Colr", box |-> self.colr]) ELSE [box |-> ipco_av1c_color(a).box, id |-> 0]
color_prop_ids(self, a) == <<ipco_ispe(a).id, ipco_pixi_3(a).id, BitOr(ipco_av1c_color(a).id, ESSENTIAL_BIT)>> \o (IF colr_is_set(self) THEN <<ipco_colr(self, a).id>> ELSE <<>>)
color_ipma_entry(self, a) == [item_id |-> color_image_id, prop_ids |-> color_prop_ids(self, a)]

(* lib.rs 177-213: the alpha item, its properties, references and ipma entry *)
AlphaItemInfe == [id |-> alpha_image_id, typ |-> FourCC_av01, name |-> Str_Alpha]
ipco_pixi_1(self, a) == IpcoBox_push(ipco_colr(self, a).box, [kind |-> "Pixi", box |-> [channels |-> 1, depth |-> a.depth_bits]])
ipco_av1c_alpha(self, a) == IpcoBox_push(ipco_pixi_1(self, a).box, [kind |-> "Av1C", box |-> alpha_config(a)])
ipco_auxc(self, a) == IpcoBox_push(ipco_av1c_alpha(self, a).box, [kind |-> "AuxC", box |-> [urn |-> Str_alpha_urn]])
alpha_irefs_AlwaysPrem(self) == <<[entry |-> [from_id |-> alpha_image_id, to_id |-> color_image_id, typ |-> FourCC_auxl]], [entry |-> [from_id |-> color_image_id, to_id |-> alpha_image_id, typ |-> FourCC_prem]]>>
alpha_irefs_AuxlFromColor(self) == <<[entry |-> [from_id |-> color_image_id, to_id |-> alpha_image_id, typ |-> FourCC_auxl]]>> \o (IF self.premultiplied_alpha THEN <<[entry |-> [from_id |-> color_image_id, to_id |-> alpha_image_id, typ |-> FourCC_prem]]>> ELSE <<>>)
alpha_irefs(self) == <<[entry |-> [from_id |-> alpha_image_id, to_id |-> color_image_id, typ |-> FourCC_auxl]]>> \o (IF self.premultiplied_alpha THEN <<[entry |-> [from_id |-> color_image_id, to_id |-> alpha_image_id, typ |-> FourCC_prem]]>> ELSE <<>>)
alpha_ipma_entry(self, a) == [item_id |-> alpha_image_id, prop_ids |-> <<ipco_ispe(a).id, ipco_pixi_1(self, a).id, BitOr(ipco_av1c_alpha(self, a).id, ESSENTIAL_BIT), ipco_auxc(self, a).id>>]

(* lib.rs 215-248: extents and payload chunks, alpha first when present *)
iloc_items_ColorOnly(a) == <<[id |-> color_image_id, extents |-> <<[offset |-> Relative(0), len |-> Len(a.color_av1_data)]>>]>>
iloc_items_BothAtZero(a) == IF IsSome(a.alpha_av1_data) THEN <<[id |-> color_image_id, extents |-> <<[offset |-> Relative(0), len |-> Len(a.color_av1_data)]>>], [id |-> alpha_image_id, extents |-> <<[offset |-> Relative(0), len |-> Len(Unwrap(a.alpha_av1_data))]>>]>> ELSE <<[id |-> color_image_id, extents |-> <<[offset |-> Relative(0), len |-> Len(a.color_av1_data)]>>]>>
iloc_items_ColorFirst(a) == IF IsSome(a.alpha_av1_data) THEN <<[id |-> color_image_id, extents |-> <<[offset |-> Relative(0), len |-> Len(a.color_av1_data)]>>], [id |-> alpha_image_id, extents |-> <<[offset |-> Relative(Len(a.color_av1_data)), len |-> Len(Unwrap(a.alpha_av1_data))]>>]>> ELSE <<[id |-> color_image_id, extents |-> <<[offset |-> Relative(0), len |-> Len(a.color_av1_data)]>>]>>
iloc_items(a) == IF IsSome(a.alpha_av1_data) THEN <<[id |-> color_image_id, extents |-> <<[offset |-> Relative(Len(Unwrap(a.alpha_av1_data))), len |-> Len(a.color_av1_data)]>>], [id |-> alpha_image_id, extents |-> <<[offset |-> Relative(0), len |-> Len(Unwrap(a.alpha_av1_data))]>>]>> ELSE <<[id |-> color_image_id, extents |-> <<[offset |-> Relative(0), len |-> Len(a.color_av1_data)]>>]>>
data_chunks_ColorFirst(a) == IF IsSome(a.alpha_av1_data) THEN <<a.color_av1_data, Unwrap(a.alpha_av1_data)>> ELSE <<a.color_av1_data>>
data_chunks(a) == IF IsSome(a.alpha_av1_data) THEN <<Unwrap(a.alpha_av1_data), a.color_av1_data>> ELSE <<a.color_av1_data>>

(***************************************************************************)
(* lib.rs 250-463: the sample tables and the tracks of the movie box.      *)
(***************************************************************************)
now_Clock == u64_of(clock)
now == u64_of(0)

(* lib.rs 257-260: media_duration += frame.duration_in_timescales.  An overflowing u64 *)
(* addition panics when overflow checks are compiled in (pc = "panic_overflow") and     *)
(* wraps otherwise.                                                                     *)
RECURSIVE media_duration_loop(_, _, _, _)
media_duration_loop(frames, i, acc, checks) == IF i >= Len(frames) THEN [val |-> acc, pc |-> "made"] ELSE LET sum == u64_add(acc, frames[i + 1].duration_in_timescales) IN IF checks /\ sum.overflow THEN [val |-> acc, pc |-> "panic_overflow"] ELSE media_duration_loop(frames, i + 1, sum.val, checks)
media_duration(frames, checks) == media_duration_loop(frames, 0, u64_of(0), checks)

(* lib.rs 262-285: the color loop; i is the 0-based loop index *)
RECURSIVE color_stts_loop(_, _, _, _)
color_stts_loop(frames, i, sample_count, acc) == IF i >= Len(frames) THEN acc ELSE IF i < Len(frames) - 1 /\ frames[i + 1].duration_in_timescales = frames[i + 2].duration_in_timescales THEN color_stts_loop(frames, i + 1, sample_count + 1, acc) ELSE color_stts_loop(frames, i + 1, 0, Append(acc, <<sample_count + 1, u64_as_u32(frames[i + 1].duration_in_timescales)>>))
stts_sample_delta_NoMerge(frames) == [i \in 1..Len(frames) |-> <<1, u64_as_u32(frames[i].duration_in_timescales)>>]
stts_sample_delta_NoReset(frames) == LET e == color_stts_loop(frames, 0, 0, <<>>) IN [k \in 1..Len(e) |-> <<SumSeq([j \in 1..k |-> e[j][1]]), e[k][2]>>]
stts_sample_delta(frames) == color_stts_loop(frames, 0, 0, <<>>)
RECURSIVE color_sync_loop(_, _, _)
color_sync_loop(frames, i, acc) == IF i >= Len(frames) THEN acc ELSE color_sync_loop(frames, i + 1, IF frames[i + 1].sync THEN Append(acc, i + 1) ELSE acc)
sample_number_Reversed(frames) == LET sn == color_sync_loop(frames, 0, <<>>) IN [k \in 1..Len(sn) |-> sn[Len(sn) + 1 - k]]
sample_number(frames) == color_sync_loop(frames, 0, <<>>)
sync_sample_count(frames) == Len(sample_number(frames))
(* lib.rs 287-290 *)
stss_box(frames) == IF sync_sample_count(frames) # Len(frames) THEN Some([entry_count |-> sync_sample_count(frames), sample_number |-> sample_number(frames)]) ELSE None

(* lib.rs 375-398: the alpha loop *)
RECURSIVE alpha_stts_loop(_, _, _, _)
alpha_stts_loop(frames, i, sample_count, acc) == IF i >= Len(frames) THEN acc ELSE IF i < Len(frames) - 1 /\ frames[i + 1].duration_in_timescales = frames[i + 2].duration_in_timescales THEN alpha_stts_loop(frames, i + 1, sample_count + 1, acc) ELSE alpha_stts_loop(frames, i + 1, 0, Append(acc, <<sample_count + 1, u64_as_u32(frames[i + 1].duration_in_timescales)>>))
alpha_stts_sample_delta(frames) == alpha_stts_loop(frames, 0, 0, <<>>)
RECURSIVE alpha_sync_loop(_, _, _)
alpha_sync_loop(frames, i, acc) == IF i >= Len(frames) THEN acc ELSE alpha_sync_loop(frames, i + 1, IF frames[i + 1].sync THEN Append(acc, i + 1) ELSE acc)
alpha_sample_number(frames) == alpha_sync_loop(frames, 0, <<>>)
alpha_sync_sample_count(frames) == Len(alpha_sample_number(frames))
(* lib.rs 400-403 *)
alpha_stss_box(frames) == IF alpha_sync_sample_count(frames) # Len(frames) THEN Some([entry_count |-> alpha_sync_sample_count(frames), sample_number |-> alpha_sample_number(frames)]) ELSE None

frame_size_Const(x) == u32_of(1)
frame_size(x) == x.size

(* lib.rs 305-371: the color track *)
color_trak(self, a, checks) == [tkhd |-> [creation_time |-> now, modification_time |-> now, track_id |-> 1, duration |-> u64_MAX, width |-> u32_shl16(a.width), height |-> u32_shl16(a.height)], tref |-> None, meta |-> None, mdia |-> [mdhd |-> [creation_time |-> now, modification_time |-> now, timescale |-> a.timescale, duration |-> media_duration(Unwrap(a.color_frames), checks).val], hdlr |-> [handler_type |-> FourCC_pict, name |-> Str_avifser], minf |-> [vmhd |-> [x |-> 0], dinf |-> [dref |-> [url |-> [x |-> 0]]], stbl |-> [stsd |-> [entry |-> [typ |-> FourCC_av01, width |-> u32_as_u16(a.width), height |-> u32_as_u16(a.height), config |-> color_config(a), colr |-> Some(self.colr), ccst |-> [x |-> 0], auxi |-> None]], stts |-> [sample_delta |-> stts_sample_delta(Unwrap(a.color_frames))], stsc |-> [samples_per_chunk |-> Len(Unwrap(a.color_frames))], stsz |-> [sample_count |-> Len(Unwrap(a.color_frames)), entry_size |-> MapSeq(Unwrap(a.color_frames), frame_size)], stco |-> [chunk_offset |-> u32_of(1)], stss |-> stss_box(Unwrap(a.color_frames))]]]]

(* lib.rs 422-427: the alpha mdhd takes the media_duration variable of lib.rs 257-260 *)
alpha_mdhd_duration(a, checks) == media_duration(Unwrap(a.color_frames), checks).val

(* lib.rs 405-461: the alpha track; its mdhd duration is the color frames' media_duration *)
alpha_trak(self, a, checks) == [tkhd |-> [creation_time |-> now, modification_time |-> now, track_id |-> 2, duration |-> u64_MAX, width |-> u32_shl16(a.width), height |-> u32_shl16(a.height)], tref |-> Some([ref_type |-> [typ |-> FourCC_auxl, to_id |-> 1]]), meta |-> None, mdia |-> [mdhd |-> [creation_time |-> now, modification_time |-> now, timescale |-> a.timescale, duration |-> alpha_mdhd_duration(a, checks)], hdlr |-> [handler_type |-> FourCC_auxv, name |-> Str_avifser], minf |-> [vmhd |-> [x |-> 0], dinf |-> [dref |-> [url |-> [x |-> 0]]], stbl |-> [stsd |-> [entry |-> [typ |-> FourCC_av01, width |-> u32_as_u16(a.width), height |-> u32_as_u16(a.height), config |-> alpha_config(a), colr |-> None, ccst |-> [x |-> 0], auxi |-> Some([aux_track_type |-> Str_alpha_urn])]], stts |-> [sample_delta |-> alpha_stts_sample_delta(Unwrap(a.alpha_frames))], stsc |-> [samples_per_chunk |-> Len(Unwrap(a.alpha_frames))], stsz |-> [sample_count |-> Len(Unwrap(a.alpha_frames)), entry_size |-> MapSeq(Unwrap(a.alpha_frames), frame_size)], stco |-> [chunk_offset |-> u32_of(1)], stss |-> alpha_stss_box(Unwrap(a.alpha_frames))]]]]

(* lib.rs 250-463: the movie box, or the panic of the media_duration loop *)
moov_box_NoAlphaTrack(self, a, checks) == IF IsSome(a.color_frames) THEN IF media_duration(Unwrap(a.color_frames), checks).pc = "panic_overflow" THEN [moov |-> None, pc |-> "panic_overflow"] ELSE [moov |-> Some([mvhd |-> [creation_time |-> now, modification_time |-> now, timescale |-> a.timescale, duration |-> u64_MAX, next_track_id |-> IF IsSome(a.alpha_frames) THEN 2 ELSE 1], tracks |-> <<color_trak(self, a, checks)>>]), pc |-> "made"] ELSE [moov |-> None, pc |-> "made"]
moov_box(self, a, checks) == IF IsSome(a.color_frames) THEN IF media_duration(Unwrap(a.color_frames), checks).pc = "panic_overflow" THEN [moov |-> None, pc |-> "panic_overflow"] ELSE [moov |-> Some([mvhd |-> [creation_time |-> now, modification_time |-> now, timescale |-> a.timescale, duration |-> u64_MAX, next_track_id |-> IF IsSome(a.alpha_frames) THEN 2 ELSE 1], tracks |-> <<color_trak(self, a, checks)>> \o (IF IsSome(a.alpha_frames) THEN <<alpha_trak(self, a, checks)>> ELSE <<>>)]), pc |-> "made"] ELSE [moov |-> None, pc |-> "made"]

(* lib.rs 465-471 *)
compatible_brands_AlwaysAvis(self, a, checks) == <<FourCC_avif, FourCC_avis, FourCC_mif1, FourCC_miaf>>
compatible_brands(self, a, checks) == <<FourCC_avif>> \o (IF IsSome(moov_box(self, a, checks).moov) THEN <<FourCC_avis>> ELSE <<>>) \o <<FourCC_mif1, FourCC_miaf>>

(* lib.rs 116-503: the tree, or the panic of an overflowing media_duration sum *)
make_boxes(self, a, checks) == IF moov_box(self, a, checks).pc = "panic_overflow" THEN [file |-> None, pc |-> "panic_overflow"] ELSE [file |-> Some([ftyp |-> [major_brand |-> IF IsSome(moov_box(self, a, checks).moov) THEN FourCC_avis ELSE FourCC_avif, minor_version |-> 0, compatible_brands |-> compatible_brands(self, a, checks)], meta |-> [hdlr |-> [handler_type |-> FourCC_pict, name |-> Str_avifser], iinf |-> [items |-> <<ColorItemInfe>> \o (IF IsSome(a.alpha_av1_data) THEN <<AlphaItemInfe>> ELSE <<>>)], pitm |-> color_image_id, iloc |-> [items |-> iloc_items(a)], iprp |-> [ipco |-> IF IsSome(a.alpha_av1_data) THEN ipco_auxc(self, a).box ELSE ipco_colr(self, a).box, ipma |-> [entries |-> <<color_ipma_entry(self, a)>> \o (IF IsSome(a.alpha_av1_data) THEN <<alpha_ipma_entry(self, a)>> ELSE <<>>)]], iref |-> IF IsSome(a.alpha_av1_data) THEN alpha_irefs(self) ELSE <<>>], moov |-> moov_box(self, a, checks).moov, mdat |-> [data_chunks |-> data_chunks(a)]]), pc |-> "made"]
(* the tree of a call whose make_boxes returns *)
Made(self, a) == Unwrap(make_boxes(self, a, FALSE).file)

(***************************************************************************)
(* AvifFile: offset resolution (boxes.rs 37-102).                          *)
(***************************************************************************)
moov_len(f) == IF IsSome(f.moov) THEN MoovBox_len(Unwrap(f.moov)) ELSE 0

mdat_payload_start_offset_NoHeader(f) == u32_of(FtypBox_len(f.ftyp) + MetaBox_len(f.meta) + moov_len(f))
mdat_payload_start_offset_NoMoov(f) == u32_of(FtypBox_len(f.ftyp) + MetaBox_len(f.meta) + BASIC_BOX_SIZE)
(* boxes.rs 39-47 *)
mdat_payload_start_offset(f) == u32_of(FtypBox_len(f.ftyp) + MetaBox_len(f.meta) + moov_len(f) + BASIC_BOX_SIZE)

fix_extent_IgnoreRelative(ex, start_offset) == IF ex.offset.kind = "Relative" THEN [ex EXCEPT !.offset = Absolute(start_offset)] ELSE ex
(* boxes.rs 55-59: one extent; n as u32 + start_offset *)
fix_extent(ex, start_offset) == IF ex.offset.kind = "Relative" THEN [ex EXCEPT !.offset = Absolute(u32_add(u32_of(ex.offset.n), start_offset).val)] ELSE ex
fix_item(item, start_offset) == [item EXCEPT !.extents = [e \in 1..Len(item.extents) |-> fix_extent(item.extents[e], start_offset)]]
fix_iloc_positions_FirstOnly(f) == [f EXCEPT !.meta.iloc.items = [i \in 1..Len(f.meta.iloc.items) |-> IF i = 1 THEN fix_item(f.meta.iloc.items[i], mdat_payload_start_offset(f)) ELSE f.meta.iloc.items[i]]]
(* boxes.rs 51-62 *)
fix_iloc_positions(f) == [f EXCEPT !.meta.iloc.items = [i \in 1..Len(f.meta.iloc.items) |-> fix_item(f.meta.iloc.items[i], mdat_payload_start_offset(f))]]
(* with overflow checks the addition in fix_iloc_positions panics instead of wrapping *)
fix_iloc_overflows(f) == \E i \in 1..Len(f.meta.iloc.items) : \E e \in 1..Len(f.meta.iloc.items[i].extents) : f.meta.iloc.items[i].extents[e].offset.kind = "Relative" /\ u32_add(u32_of(f.meta.iloc.items[i].extents[e].offset.n), mdat_payload_start_offset(f)).overflow

(* boxes.rs 71: entry_size.into_iter().reduce(|acc, e| acc + e); None for an empty table *)
RECURSIVE reduce_add(_, _, _)
reduce_add(sizes, i, acc) == IF i > Len(sizes) THEN acc ELSE reduce_add(sizes, i + 1, [val |-> u32_add(acc.val, sizes[i]).val, overflow |-> acc.overflow \/ u32_add(acc.val, sizes[i]).overflow])
entry_size_reduce(sizes) == IF sizes = <<>> THEN None ELSE Some(reduce_add(sizes, 2, [val |-> sizes[1], overflow |-> FALSE]))

(* boxes.rs 69-72: the loop runs over the tracks in reverse, i is the 1-based track index. *)
(* It stops at the unwrap of an empty reduce (pc = "panic_unwrap_none") and, when         *)
(* overflow checks are compiled in, at an overflowing addition (pc = "panic_overflow").   *)
RECURSIVE stco_loop(_, _, _, _)
stco_loop(tracks, i, start_offset, checks) == IF i = 0 THEN [tracks |-> tracks, pc |-> "stco"] ELSE LET patched == [tracks EXCEPT ![i].mdia.minf.stbl.stco.chunk_offset = start_offset] total == entry_size_reduce(tracks[i].mdia.minf.stbl.stsz.entry_size) IN IF ~IsSome(total) THEN [tracks |-> patched, pc |-> "panic_unwrap_none"] ELSE IF checks /\ (Unwrap(total).overflow \/ u32_add(start_offset, Unwrap(total).val).overflow) THEN [tracks |-> patched, pc |-> "panic_overflow"] ELSE stco_loop(patched, i - 1, u32_add(start_offset, Unwrap(total).val).val, checks)

RECURSIVE stco_loop_Forward(_, _, _, _)
stco_loop_Forward(tracks, i, start_offset, checks) == IF i > Len(tracks) THEN [tracks |-> tracks, pc |-> "stco"] ELSE LET patched == [tracks EXCEPT ![i].mdia.minf.stbl.stco.chunk_offset = start_offset] total == entry_size_reduce(tracks[i].mdia.minf.stbl.stsz.entry_size) IN IF ~IsSome(total) THEN [tracks |-> patched, pc |-> "panic_unwrap_none"] ELSE IF checks /\ (Unwrap(total).overflow \/ u32_add(start_offset, Unwrap(total).val).overflow) THEN [tracks |-> patched, pc |-> "panic_overflow"] ELSE stco_loop_Forward(patched, i + 1, u32_add(start_offset, Unwrap(total).val).val, checks)
fix_stco_positions_Forward(f, checks) == IF IsSome(f.moov) THEN LET r == stco_loop_Forward(Unwrap(f.moov).tracks, 1, mdat_payload_start_offset(f), checks) IN [file |-> [f EXCEPT !.moov = Some([Unwrap(f.moov) EXCEPT !.tracks = r.tracks])], pc |-> r.pc] ELSE [file |-> f, pc |-> "stco"]
(* boxes.rs 64-76 *)
fix_stco_positions_TouchStsc(f, checks) == IF IsSome(f.moov) THEN LET r == stco_loop(Unwrap(f.moov).tracks, Len(Unwrap(f.moov).tracks), mdat_payload_start_offset(f), checks) IN [file |-> [f EXCEPT !.moov = Some([Unwrap(f.moov) EXCEPT !.tracks = [k \in 1..Len(r.tracks) |-> [r.tracks[k] EXCEPT !.mdia.minf.stbl.stsc.samples_per_chunk = 0]]])], pc |-> r.pc] ELSE [file |-> f, pc |-> "stco"]
fix_stco_positions(f, checks) == IF IsSome(f.moov) THEN LET r == stco_loop(Unwrap(f.moov).tracks, Len(Unwrap(f.moov).tracks), mdat_payload_start_offset(f), checks) IN [file |-> [f EXCEPT !.moov = Some([Unwrap(f.moov) EXCEPT !.tracks = r.tracks])], pc |-> r.pc] ELSE [file |-> f, pc |-> "stco"]

(* boxes.rs 82-94: the buffered header region *)
header_bytes_MetaFirst(f) == MetaBox_write(f.meta) \o FtypBox_write(f.ftyp) \o (IF IsSome(f.moov) THEN MoovBox_write(Unwrap(f.moov)) ELSE <<>>)
header_bytes(f) == FtypBox_write(f.ftyp) \o MetaBox_write(f.meta) \o (IF IsSome(f.moov) THEN MoovBox_write(Unwrap(f.moov)) ELSE <<>>)

(***************************************************************************)
(* Inputs of a serialization call.                                         *)
(***************************************************************************)
Frame(d, s, z) == [duration_in_timescales |-> d, sync |-> s, size |-> z]
Duration32Wrap == [hi |-> u32_of(1), lo |-> u32_of(1)]
Geometries == {[width |-> u32_of(10), height |-> u32_of(20), depth_bits |-> 8], [width |-> u32_of(65541), height |-> u32_of(5), depth_bits |-> 12]}
PayloadLens == (0..MaxPayload) \cup {Len(test_img)}
ColorPayloads == {SubSeq(test_img, 1, n) : n \in PayloadLens}
AlphaPayloads == {None} \cup {Some(SubSeq(test_a, 1, n)) : n \in 0..MaxPayload}
RECURSIVE SeqsUpTo(_, _)
SeqsUpTo(S, n) == IF n = 0 THEN {<<>>} ELSE SeqsUpTo(S, n - 1) \cup {Append(q, x) : q \in {r \in SeqsUpTo(S, n - 1) : Len(r) = n - 1}, x \in S}
Frames == {Frame(u64_of(1), TRUE, u32_of(1)), Frame(u64_of(1), FALSE, u32_of(2)), Frame(Duration32Wrap, TRUE, u32_MAX)}
FrameLists == SeqsUpTo(Frames, MaxFrames)
MkArgs(c, al, g, cf, af) == [color_av1_data |-> c, alpha_av1_data |-> al, width |-> g.width, height |-> g.height, depth_bits |-> g.depth_bits, timescale |-> u32_of(1), color_frames |-> cf, alpha_frames |-> af, into_output |-> None]
StillArgs == {MkArgs(c, al, g, None, af) : c \in ColorPayloads, al \in AlphaPayloads, g \in Geometries, af \in {None, Some(<<>>)}}
ShortFrameLists == {l \in FrameLists : Len(l) <= 1}
(* animated calls: one of the two frame lists ranges over FrameLists, the other is short *)
FrameListPairs == {<<Some(cf), af>> : cf \in FrameLists, af \in {None} \cup {Some(l) : l \in ShortFrameLists}} \cup {<<Some(cf), Some(af)>> : cf \in ShortFrameLists, af \in FrameLists}
AnimatedArgs == {MkArgs(c, al, [width |-> u32_of(10), height |-> u32_of(20), depth_bits |-> 8], fl[1], fl[2]) : c \in {SubSeq(test_img, 1, MaxPayload)}, al \in {None, Some(SubSeq(test_a, 1, 1))}, fl \in FrameListPairs}
(* a color frame list whose durations sum to 2^64 *)
OverflowFrames == <<Frame(u64_MAX, TRUE, u32_of(1)), Frame(u64_of(1), TRUE, u32_of(1))>>
OverflowArgs == {MkArgs(SubSeq(test_img, 1, MaxPayload), al, [width |-> u32_of(10), height |-> u32_of(20), depth_bits |-> 8], Some(OverflowFrames), af) : al \in {None, Some(SubSeq(test_a, 1, 1))}, af \in {None, Some(<<Frame(u64_of(1), TRUE, u32_of(1))>>)}}
Args == StillArgs \cup AnimatedArgs \cup OverflowArgs

(***************************************************************************)
(* State.                                                                  *)
(***************************************************************************)
vars == <<aviffy, args, file, pc, out, result, clock, returned>>

(* lib.rs 49-54 Aviffy::new *)
Init == /\ aviffy = [premultiplied_alpha |-> FALSE, colr |-> ColrBox_default]
        /\ args = None
        /\ file = None
        /\ pc = "new"
        /\ out = <<>>
        /\ result = None
        /\ clock = 0
        /\ returned = {}

(* lib.rs 63-66 *)
premultiplied_alpha(is_premultiplied) == /\ pc = "new"
                                         /\ aviffy' = [aviffy EXCEPT !.premultiplied_alpha = is_premultiplied]
                                         /\ UNCHANGED <<args, file, pc, out, result, clock, returned>>
(* lib.rs 71-74 *)
matrix_coefficients(mc) == /\ pc = "new"
                           /\ aviffy' = [aviffy EXCEPT !.colr.matrix_coefficients = mc]
                           /\ UNCHANGED <<args, file, pc, out, result, clock, returned>>

(* lib.rs 78-81 *)
transfer_characteristics(tc) == /\ pc = "new"
                                /\ aviffy' = [aviffy EXCEPT !.colr.transfer_characteristics = tc]
                                /\ UNCHANGED <<args, file, pc, out, result, clock, returned>>
(* lib.rs 85-88 *)
color_primaries(cp) == /\ pc = "new"
                       /\ aviffy' = [aviffy EXCEPT !.colr.color_primaries = cp]
                       /\ UNCHANGED <<args, file, pc, out, result, clock, returned>>
(* lib.rs 92-95 *)
full_color_range(full_range) == /\ pc = "new"
                                /\ aviffy' = [aviffy EXCEPT !.colr.full_range_flag = full_range]
                                /\ UNCHANGED <<args, file, pc, out, result, clock, returned>>

(* lib.rs 112-114: Aviffy::write builds the tree and enters AvifFile::write *)
serialize(a) == /\ pc = "new"
                /\ args' = Some(a)
                /\ \E overflow_checks \in BOOLEAN : LET r == make_boxes(aviffy, a, overflow_checks) IN file' = r.file /\ pc' = r.pc
                /\ UNCHANGED <<aviffy, out, result, clock, returned>>

(* boxes.rs 79.  An overflowing u32 addition panics in a build with overflow checks and *)
(* wraps in a build without: both outcomes are successors of the overflowing step.      *)
FixIloc == /\ pc = "made"
           /\ \E overflow_checks \in BOOLEAN : IF overflow_checks /\ fix_iloc_overflows(Unwrap(file)) THEN pc' = "panic_overflow" /\ file' = file ELSE pc' = "iloc" /\ file' = Some(fix_iloc_positions(Unwrap(file)))
           /\ UNCHANGED <<aviffy, args, out, result, clock, returned>>

(* boxes.rs 80 *)
FixStco == /\ pc = "iloc"
           /\ \E overflow_checks \in BOOLEAN : LET r == fix_stco_positions(Unwrap(file), overflow_checks) IN file' = Some(r.file) /\ pc' = r.pc
           /\ UNCHANGED <<aviffy, args, out, result, clock, returned>>

(* lib.rs 505-509 to_vec: the bytes of a call that returns, into a Vec *)
to_vec(self, a) == LET f == fix_stco_positions(fix_iloc_positions(Made(self, a)), FALSE).file IN header_bytes(f) \o MdatBox_write(f.mdat)

(***************************************************************************)
(* The sink.  into_output = None is a Vec, which accepts every byte; a     *)
(* sink Some([fail_at, error]) accepts fail_at bytes in all and answers    *)
(* the write that would carry the next byte with the error.  write_all     *)
(* hands over the bytes that still fit and returns the sink's error.       *)
(***************************************************************************)
Ok == [kind |-> "Ok"]
Err(e) == [kind |-> "Err", error |-> e]
write_all(sink, written, buf) == IF IsSome(sink) /\ written + Len(buf) > Unwrap(sink).fail_at THEN [bytes |-> SubSeq(buf, 1, Unwrap(sink).fail_at - written), err |-> Some(Unwrap(sink).error)] ELSE [bytes |-> buf, err |-> None]
(* boxes.rs 672-676: the mdat header, then one push per chunk, each ended by ? *)
MdatBox_write_calls(b) == <<Writer_basic_box(MdatBox_len(b), FourCC_mdat)>> \o b.data_chunks
RECURSIVE write_calls_IgnoreErrors(_, _, _)
write_calls_IgnoreErrors(calls, sink, written) == IF calls = <<>> THEN [bytes |-> <<>>, err |-> None] ELSE LET r == write_all(sink, written, Head(calls)) rest == write_calls_IgnoreErrors(Tail(calls), None, written + Len(Head(calls))) IN [bytes |-> r.bytes \o rest.bytes, err |-> r.err]
RECURSIVE write_calls(_, _, _)
write_calls(calls, sink, written) == IF calls = <<>> THEN [bytes |-> <<>>, err |-> None] ELSE LET r == write_all(sink, written, Head(calls)) IN IF IsSome(r.err) THEN r ELSE LET rest == write_calls(Tail(calls), sink, written + Len(Head(calls))) IN [bytes |-> r.bytes \o rest.bytes, err |-> rest.err]

(* boxes.rs 82-95: ftyp, meta and moov are written to tmp, tmp is written to the sink *)
WriteHeader == /\ pc = "stco"
               /\ IF IlocBox_write_panics(Unwrap(file).meta.iloc)
                  THEN pc' = "panic_absolute_offset" /\ out' = out /\ result' = result
                  ELSE LET r == write_all(Unwrap(args).into_output, Len(out), header_bytes(Unwrap(file))) IN
                       /\ out' = out \o r.bytes
                       /\ IF IsSome(r.err) THEN pc' = "err_header" /\ result' = Some(Err(Unwrap(r.err))) ELSE pc' = "header" /\ result' = result
               /\ UNCHANGED <<aviffy, args, file, clock, returned>>

WriteMdat_PatchLate == /\ pc = "header"
                       /\ out' = out \o MdatBox_write(Unwrap(file).mdat)
                       /\ file' = Some([Unwrap(file) EXCEPT !.meta.iloc.items[1].extents[1].offset = Absolute(u32_of(0))])
                       /\ pc' = "done"
                       /\ result' = Some(Ok)
                       /\ UNCHANGED <<aviffy, args, clock, returned>>

(* boxes.rs 97-100: the mdat box is streamed to the sink *)
WriteMdat == /\ pc = "header"
             /\ LET r == write_calls(MdatBox_write_calls(Unwrap(file).mdat), Unwrap(args).into_output, Len(out)) IN
                /\ out' = out \o r.bytes
                /\ IF IsSome(r.err) THEN pc' = "err_mdat" /\ result' = Some(Err(Unwrap(r.err))) ELSE pc' = "done" /\ result' = Some(Ok)
             /\ UNCHANGED <<aviffy, args, file, clock, returned>>

Next == \/ \E b \in BOOLEAN : premultiplied_alpha(b)
        \/ \E mc \in {MatrixCoefficients_Bt601, MatrixCoefficients_Bt709} : matrix_coefficients(mc)
        \/ \E a \in Args : serialize(a)
        \/ FixIloc
        \/ FixStco
        \/ WriteHeader
        \/ WriteMdat

Spec == Init /\ [][Next]_vars

(***************************************************************************)
(* Calls whose frame lists are long enough to hold several duration runs:  *)
(* one track's list ranges over every sequence of up to MaxRunFrames       *)
(* frames with durations 1, 2 or 5.                                        *)
(***************************************************************************)
RunFrames == {Frame(u64_of(d), TRUE, u32_of(1)) : d \in {1, 2, 5}}
RunLists == SeqsUpTo(RunFrames, MaxRunFrames)
RunArgs == {MkArgs(<<7>>, None, [width |-> u32_of(10), height |-> u32_of(20), depth_bits |-> 8], Some(l), None) : l \in RunLists} \cup {MkArgs(<<7>>, Some(<<8>>), [width |-> u32_of(10), height |-> u32_of(20), depth_bits |-> 8], Some(<<Frame(u64_of(5), TRUE, u32_of(1))>>), Some(l)) : l \in RunLists}

NextRuns == \/ \E a \in RunArgs : serialize(a)
            \/ FixIloc
            \/ FixStco
            \/ WriteHeader
            \/ WriteMdat

SpecRuns == Init /\ [][NextRuns]_vars

(***************************************************************************)
(* Frame lists of up to MaxSyncFrames frames with every mix of sync and    *)
(* non-sync frames, on the color track and on the alpha track.             *)
(***************************************************************************)
SyncFrames == {Frame(u64_of(1), s, u32_of(1)) : s \in BOOLEAN}
SyncLists == {l \in SeqsUpTo(SyncFrames, MaxSyncFrames) : Len(l) >= 1}
SyncArgs == {MkArgs(<<7>>, None, [width |-> u32_of(10), height |-> u32_of(20), depth_bits |-> 8], Some(l), None) : l \in SyncLists} \cup {MkArgs(<<7>>, Some(<<8>>), [width |-> u32_of(10), height |-> u32_of(20), depth_bits |-> 8], Some(<<Frame(u64_of(1), TRUE, u32_of(1))>>), Some(l)) : l \in SyncLists}

NextSync == \/ \E a \in SyncArgs : serialize(a)
            \/ FixIloc
            \/ FixStco
            \/ WriteHeader
            \/ WriteMdat

SpecSync == Init /\ [][NextSync]_vars

(***************************************************************************)
(* Repeated calls.  Aviffy::write takes &self (lib.rs 112): after a call   *)
(* has returned the caller may set the configuration again and call again  *)
(* on the same value, with a fresh Vec as the sink, at a later time.       *)
(* call_again records the returned call and starts over.                   *)
(***************************************************************************)
call_again == /\ pc = "done"
              /\ Cardinality(returned) < MaxCalls
              /\ returned' = returned \cup {[self |-> aviffy, args |-> Unwrap(args), at |-> clock, out |-> out, result |-> Unwrap(result)]}
              /\ \E t \in {clock, clock + 1} : t <= MaxClock /\ clock' = t
              /\ args' = None
              /\ file' = None
              /\ pc' = "new"
              /\ out' = <<>>
              /\ result' = None
              /\ UNCHANGED aviffy

CallArgs == {MkArgs(<<7, 8>>, Some(<<9>>), [width |-> u32_of(10), height |-> u32_of(20), depth_bits |-> 8], None, None), MkArgs(<<7>>, Some(<<8>>), [width |-> u32_of(10), height |-> u32_of(20), depth_bits |-> 8], Some(<<Frame(u64_of(1), TRUE, u32_of(1))>>), Some(<<Frame(u64_of(1), TRUE, u32_of(1))>>))}

NextCalls == \/ \E b \in BOOLEAN : premultiplied_alpha(b)
             \/ \E a \in CallArgs : serialize(a)
             \/ FixIloc
             \/ FixStco
             \/ WriteHeader
             \/ WriteMdat
             \/ call_again

SpecCalls == Init /\ [][NextCalls]_vars

(***************************************************************************)
(* Calls into a sink that can fail: for a still image, a still image with  *)
(* alpha and a one-frame animation, the sink gives out at every byte       *)
(* position of the file, or not at all.                                    *)
(***************************************************************************)
SinkErrors == {"WriteZero", "BrokenPipe"}
SinkGeometry == [width |-> u32_of(10), height |-> u32_of(20), depth_bits |-> 8]
SinkBaseArgs == {MkArgs(SubSeq(test_img, 1, MaxPayload), None, SinkGeometry, None, None), MkArgs(SubSeq(test_img, 1, MaxPayload), Some(SubSeq(test_a, 1, MaxPayload)), SinkGeometry, None, None), MkArgs(SubSeq(test_img, 1, MaxPayload), None, SinkGeometry, Some(<<Frame(u64_of(1), TRUE, u32_of(MaxPayload))>>), None)}
FileLen(f) == FtypBox_len(f.ftyp) + MetaBox_len(f.meta) + moov_len(f) + MdatBox_len(f.mdat)
SinkArgs == UNION {{[a EXCEPT !.into_output = Some([fail_at |-> n, error |-> e])] : n \in 0..FileLen(Made([premultiplied_alpha |-> FALSE, colr |-> ColrBox_default], a)), e \in SinkErrors} : a \in SinkBaseArgs}

NextSink == \/ \E a \in SinkArgs : serialize(a)
            \/ FixIloc
            \/ FixStco
            \/ WriteHeader
            \/ WriteMdat

SpecSink == Init /\ [][NextSink]_vars

(***************************************************************************)
(* Calls after any sequence of the four colour setters.                    *)
(***************************************************************************)
ColrArgs == {MkArgs(SubSeq(test_img, 1, n), al, SinkGeometry, cf, None) : n \in 1..MaxPayload, al \in {None, Some(SubSeq(test_a, 1, 1))}, cf \in {None, Some(<<Frame(u64_of(1), TRUE, u32_of(1))>>)}}

NextColr == \/ \E mc \in {MatrixCoefficients_Bt601, MatrixCoefficients_Bt709} : matrix_coefficients(mc)
            \/ \E tc \in {TransferCharacteristics_Srgb, TransferCharacteristics_Bt709} : transfer_characteristics(tc)
            \/ \E cp \in {ColorPrimaries_Bt709, ColorPrimaries_Bt2020} : color_primaries(cp)
            \/ \E full_range \in BOOLEAN : full_color_range(full_range)
            \/ \E a \in ColrArgs : serialize(a)
            \/ FixIloc
            \/ FixStco
            \/ WriteHeader
            \/ WriteMdat

SpecColr == Init /\ [][NextColr]_vars

(***************************************************************************)
(* Box values with each optional child present or absent: the tree of a    *)
(* one-track animation in which tref, meta, stss and auxi of the track     *)
(* and the iref list of the meta box are set or cleared independently;     *)
(* the steps apply write to the parents of these children.                 *)
(***************************************************************************)
Aviffy_new == [premultiplied_alpha |-> FALSE, colr |-> ColrBox_default]
BoxArgs == {MkArgs(SubSeq(test_img, 1, MaxPayload), al, SinkGeometry, Some(cf), None) : al \in {None, Some(SubSeq(test_a, 1, 1))}, cf \in {l \in FrameLists : Len(l) = 1}}
SampleTref == [ref_type |-> [typ |-> FourCC_auxl, to_id |-> 1]]
SampleStss == [entry_count |-> 1, sample_number |-> <<1>>]
SampleAuxi == [aux_track_type |-> Str_alpha_urn]
SampleIrefs == alpha_irefs([premultiplied_alpha |-> TRUE, colr |-> ColrBox_default])
BoxTrees(a) == LET f == fix_iloc_positions(Made(Aviffy_new, a))
                   t == Unwrap(f.moov).tracks[1]
               IN {[f EXCEPT !.meta.iref = ir, !.moov = Some([Unwrap(f.moov) EXCEPT !.tracks = <<[t EXCEPT !.tref = tr, !.meta = me, !.mdia.minf.stbl.stss = ss, !.mdia.minf.stbl.stsd.entry.auxi = au]>>])] : ir \in {<<>>, SampleIrefs}, tr \in {None, Some(SampleTref)}, me \in {None, Some(f.meta)}, ss \in {None, Some(SampleStss)}, au \in {None, Some(SampleAuxi)}}

InitBoxes == /\ aviffy = Aviffy_new
             /\ args \in {Some(a) : a \in BoxArgs}
             /\ file \in {Some(f) : f \in BoxTrees(Unwrap(args))}
             /\ pc = "box"
             /\ out = <<>>
             /\ result = None
             /\ clock = 0
             /\ returned = {}

(* boxes.rs 159-170 *)
write_meta == /\ pc = "box"
              /\ out' = MetaBox_write(Unwrap(file).meta)
              /\ pc' = "meta"
              /\ UNCHANGED <<aviffy, args, file, result, clock, returned>>
(* boxes.rs 773-787 *)
write_trak == /\ pc = "box"
              /\ out' = TrakBox_write(Unwrap(Unwrap(file).moov).tracks[1])
              /\ pc' = "trak"
              /\ UNCHANGED <<aviffy, args, file, result, clock, returned>>
(* boxes.rs 1038-1051 *)
write_stbl == /\ pc = "box"
              /\ out' = StblBox_write(Unwrap(Unwrap(file).moov).tracks[1].mdia.minf.stbl)
              /\ pc' = "stbl"
              /\ UNCHANGED <<aviffy, args, file, result, clock, returned>>
(* boxes.rs 1097-1128 *)
write_sample_entry == /\ pc = "box"
                      /\ out' = SampleEntryBox_write(Unwrap(Unwrap(file).moov).tracks[1].mdia.minf.stbl.stsd.entry)
                      /\ pc' = "entry"
                      /\ UNCHANGED <<aviffy, args, file, result, clock, returned>>

NextBoxes == write_meta \/ write_trak \/ write_stbl \/ write_sample_entry

SpecBoxes == InitBoxes /\ [][NextBoxes]_vars

(***************************************************************************)
(* Views of the state used by the properties.                              *)
(***************************************************************************)
Called == IsSome(args) /\ IsSome(file)
TheArgs == Unwrap(args)
TheFile == Unwrap(file)
Panicked == pc \in {"panic_overflow", "panic_unwrap_none", "panic_absolute_offset"}
(* fix_iloc_positions has run: every box of the tree can be written *)
IlocFixed == pc \in {"iloc", "stco", "header", "done", "panic_unwrap_none"} \/ (pc = "panic_overflow" /\ IsSome(file) /\ ~IlocBox_write_panics(TheFile.meta.iloc))
(* both fix passes have returned *)
Resolved == pc \in {"stco", "header", "done"}
Animated == Called /\ IsSome(TheArgs.color_frames)
TwoTracks == Animated /\ IsSome(TheArgs.alpha_frames)
Tracks == Unwrap(TheFile.moov).tracks
Stbl(t) == t.mdia.minf.stbl

(* every box of a track / of the file, as <<bytes written, len()>> *)
OptBoxes(o, W(_), L(_)) == IF IsSome(o) THEN <<<<W(Unwrap(o)), L(Unwrap(o))>>>> ELSE <<>>
StblBoxes(b) == <<<<StblBox_write(b), StblBox_len(b)>>, <<StsdBox_write(b.stsd), StsdBox_len(b.stsd)>>, <<SampleEntryBox_write(b.stsd.entry), SampleEntryBox_len(b.stsd.entry)>>, <<Av1CBox_write(b.stsd.entry.config), Av1CBox_len(b.stsd.entry.config)>>, <<CcstBox_write(b.stsd.entry.ccst), CcstBox_len(b.stsd.entry.ccst)>>, <<SttsBox_write(b.stts), SttsBox_len(b.stts)>>, <<StscBox_write(b.stsc), StscBox_len(b.stsc)>>, <<StszBox_write(b.stsz), StszBox_len(b.stsz)>>, <<StcoBox_write(b.stco), StcoBox_len(b.stco)>>>> \o OptBoxes(b.stsd.entry.auxi, AuxiBox_write, AuxiBox_len) \o OptBoxes(b.stss, StssBox_write, StssBox_len)
TrakBoxes(t) == <<<<TrakBox_write(t), TrakBox_len(t)>>, <<TkhdBox_write(t.tkhd), TkhdBox_len(t.tkhd)>>, <<MdiaBox_write(t.mdia), MdiaBox_len(t.mdia)>>, <<MdhdBox_write(t.mdia.mdhd), MdhdBox_len(t.mdia.mdhd)>>, <<HdlrBox_write(t.mdia.hdlr), HdlrBox_len(t.mdia.hdlr)>>, <<MinfBox_write(t.mdia.minf), MinfBox_len(t.mdia.minf)>>, <<VmhdBox_write(t.mdia.minf.vmhd), VmhdBox_len(t.mdia.minf.vmhd)>>, <<DinfBox_write(t.mdia.minf.dinf), DinfBox_len(t.mdia.minf.dinf)>>, <<DrefBox_write(t.mdia.minf.dinf.dref), DrefBox_len(t.mdia.minf.dinf.dref)>>, <<UrlBox_write(t.mdia.minf.dinf.dref.url), UrlBox_len(t.mdia.minf.dinf.dref.url)>>>> \o OptBoxes(t.tref, TrefBox_write, TrefBox_len) \o (IF IsSome(t.tref) THEN <<<<ReftypeBox_write(Unwrap(t.tref).ref_type), ReftypeBox_len(Unwrap(t.tref).ref_type)>>>> ELSE <<>>) \o OptBoxes(t.meta, MetaBox_write, MetaBox_len) \o StblBoxes(Stbl(t))
MoovBoxes(m) == <<<<MoovBox_write(m), MoovBox_len(m)>>, <<MvhdBox_write(m.mvhd), MvhdBox_len(m.mvhd)>>>> \o Flatten(MapSeq(m.tracks, TrakBoxes))
InfePair(b) == <<InfeBox_write(b), InfeBox_len(b)>>
IrefPairs(b) == <<<<IrefBox_write(b), IrefBox_len(b)>>, <<IrefEntryBox_write(b.entry), IrefEntryBox_len(b.entry)>>>>
PropPair(q) == <<IpcoProp_write(q), IpcoProp_len(q)>>
MetaBoxes(m) == <<<<MetaBox_write(m), MetaBox_len(m)>>, <<HdlrBox_write(m.hdlr), HdlrBox_len(m.hdlr)>>, <<PitmBox_write(m.pitm), PitmBox_len(m.pitm)>>, <<IlocBox_write(m.iloc), IlocBox_len(m.iloc)>>, <<IinfBox_write(m.iinf), IinfBox_len(m.iinf)>>, <<IprpBox_write(m.iprp), IprpBox_len(m.iprp)>>, <<IpcoBox_write(m.iprp.ipco), IpcoBox_len(m.iprp.ipco)>>, <<IpmaBox_write(m.iprp.ipma), IpmaBox_len(m.iprp.ipma)>>>> \o MapSeq(m.iinf.items, InfePair) \o Flatten(MapSeq(m.iref, IrefPairs)) \o MapSeq(m.iprp.ipco.props, PropPair)
FileBoxes(f) == <<<<FtypBox_write(f.ftyp), FtypBox_len(f.ftyp)>>, <<MdatBox_write(f.mdat), MdatBox_len(f.mdat)>>>> \o MetaBoxes(f.meta) \o (IF IsSome(f.moov) THEN MoovBoxes(Unwrap(f.moov)) ELSE <<>>)

(***************************************************************************)
(* C1: for every box of every tree make_boxes builds, write() emits        *)
(* exactly len() bytes, and the 32-bit size field at the start of the box  *)
(* holds that number.                                                      *)
(***************************************************************************)
C1_LenEqualsWrite == IlocFixed => LET boxes == FileBoxes(TheFile) IN \A k \in 1..Len(boxes) : LET bytes == boxes[k][1] IN Len(bytes) = boxes[k][2] /\ ReadU32(bytes, 0) = boxes[k][2]
(* an animated color+alpha file with colr, prem and a sync table has been written in full *)
C1_Witness == pc = "done" /\ TwoTracks /\ IsSome(TheArgs.alpha_av1_data) /\ colr_is_set(aviffy) /\ aviffy.premultiplied_alpha /\ IsSome(Stbl(Tracks[1]).stss) /\ Len(FileBoxes(TheFile)) >= 67 /\ Len(out) = FtypBox_len(TheFile.ftyp) + MetaBox_len(TheFile.meta) + moov_len(TheFile) + MdatBox_len(TheFile.mdat)

(***************************************************************************)
(* A reader of the emitted bytes: it walks ftyp, meta, hdlr and pitm by    *)
(* their size fields and reads the iloc entries (4-byte offset and length) *)
(***************************************************************************)
ReadU16(bytes, pos) == bytes[pos + 1] * 256 + bytes[pos + 2]
ParsedMetaPos(bytes) == ReadU32(bytes, 0)
ParsedHdlrPos(bytes) == ParsedMetaPos(bytes) + 12
ParsedPitmPos(bytes) == ParsedHdlrPos(bytes) + ReadU32(bytes, ParsedHdlrPos(bytes))
ParsedIlocPos(bytes) == ParsedPitmPos(bytes) + ReadU32(bytes, ParsedPitmPos(bytes))
ParsedPrimaryId(bytes) == ReadU16(bytes, ParsedPitmPos(bytes) + 12)
ParsedIlocCount(bytes) == ReadU16(bytes, ParsedIlocPos(bytes) + 14)
ParsedIlocItem(bytes, k) == LET at == ParsedIlocPos(bytes) + 16 + 14 * k IN [id |-> ReadU16(bytes, at), offset |-> ReadU32(bytes, at + 6), len |-> ReadU32(bytes, at + 10)]
ParsedHasItem(bytes, id) == \E k \in 0..(ParsedIlocCount(bytes) - 1) : ParsedIlocItem(bytes, k).id = id
ParsedItem(bytes, id) == ParsedIlocItem(bytes, CHOOSE k \in 0..(ParsedIlocCount(bytes) - 1) : ParsedIlocItem(bytes, k).id = id)
ParsedItemData(bytes, id) == Slice(bytes, ParsedItem(bytes, id).offset, ParsedItem(bytes, id).len)

IlocItemOf(f, id) == f.meta.iloc.items[CHOOSE i \in 1..Len(f.meta.iloc.items) : f.meta.iloc.items[i].id = id]
StillColorOnly == Called /\ ~IsSome(TheArgs.alpha_av1_data) /\ ~IsSome(TheArgs.color_frames) /\ ~IsSome(TheArgs.alpha_frames)
HasAlpha == Called /\ IsSome(TheArgs.alpha_av1_data)
ColorData == TheArgs.color_av1_data
AlphaData == Unwrap(TheArgs.alpha_av1_data)

(***************************************************************************)
(* C2: for a still image with a color-only payload, the resolved extent    *)
(* offset of the color item is ftyp.len() + meta.len() + 8, the offset     *)
(* written in iloc is that number, and it is the position in the emitted   *)
(* file of the first payload byte.                                         *)
(***************************************************************************)
C2_StillOffset ==
    StillColorOnly =>
        LET expected == FtypBox_len(TheFile.ftyp) + MetaBox_len(TheFile.meta) + 8 IN
        /\ (IlocFixed => IlocItemOf(TheFile, color_image_id).extents[1].offset = Absolute(u32_of(expected)))
        /\ (pc = "header" => Len(out) + 8 = expected)
        /\ (pc = "done" => /\ ParsedItem(out, color_image_id).offset = expected
                           /\ Len(out) = expected + Len(ColorData)
                           /\ Slice(out, expected, Len(ColorData)) = ColorData)
(* the 10x20 8-bit still with the 10-byte payload: the offset is 258 *)
C2_Witness == pc = "done" /\ StillColorOnly /\ ColorData = test_img /\ TheArgs.width = u32_of(10) /\ TheArgs.height = u32_of(20) /\ TheArgs.depth_bits = 8 /\ ~colr_is_set(aviffy) /\ ParsedItem(out, color_image_id).offset = 258 /\ Slice(out, 258, 10) = test_img

(***************************************************************************)
(* C3: with color and alpha payloads, the mdat content is the alpha bytes  *)
(* followed by the color bytes; before resolution the alpha extent is      *)
(* Relative(0) of length alpha.len() and the color extent is               *)
(* Relative(alpha.len()) of length color.len().                            *)
(***************************************************************************)
C3_Interleave ==
    HasAlpha =>
        /\ Flatten(TheFile.mdat.data_chunks) = AlphaData \o ColorData
        /\ (pc = "made" => /\ IlocItemOf(TheFile, alpha_image_id).extents = <<[offset |-> Relative(0), len |-> Len(AlphaData)]>>
                           /\ IlocItemOf(TheFile, color_image_id).extents = <<[offset |-> Relative(Len(AlphaData)), len |-> Len(ColorData)]>>)
        /\ (pc = "done" => Slice(out, Len(out) - Len(AlphaData) - Len(ColorData), Len(AlphaData) + Len(ColorData)) = AlphaData \o ColorData)
C3_Witness == pc = "done" /\ HasAlpha /\ Len(AlphaData) = MaxPayload /\ ColorData = test_img /\ Slice(out, Len(out) - MaxPayload - 10, MaxPayload + 10) = AlphaData \o test_img

(***************************************************************************)
(* C4: round trip.  In the emitted bytes the slice named by the primary    *)
(* item's iloc extent is the color payload, and the slice named by the     *)
(* alpha item's extent is the alpha payload.                               *)
(***************************************************************************)
C4_RoundTrip ==
    pc = "done" =>
        /\ ParsedPrimaryId(out) = color_image_id
        /\ ParsedItemData(out, ParsedPrimaryId(out)) = ColorData
        /\ (HasAlpha => (ParsedHasItem(out, alpha_image_id) /\ ParsedItemData(out, alpha_image_id) = AlphaData))
C4_Witness == pc = "done" /\ HasAlpha /\ Animated /\ Len(AlphaData) >= 1 /\ Len(ColorData) >= 2 /\ ParsedItemData(out, 1) = ColorData /\ ParsedItemData(out, 2) = AlphaData /\ ParsedItem(out, 2).offset < ParsedItem(out, 1).offset

(***************************************************************************)
(* Views of the animated tree.                                             *)
(***************************************************************************)
ColorFrames == Unwrap(TheArgs.color_frames)
AlphaFrames == Unwrap(TheArgs.alpha_frames)
RECURSIVE WrapSum(_)
WrapSum(frames) == IF frames = <<>> THEN u32_of(0) ELSE u32_add(Head(frames).size, WrapSum(Tail(frames))).val
AfterMdatHeader == u32_of(FtypBox_len(TheFile.ftyp) + MetaBox_len(TheFile.meta) + MoovBox_len(Unwrap(TheFile.moov)) + 8)
ColorStco == Stbl(Tracks[1]).stco.chunk_offset
AlphaStco == Stbl(Tracks[2]).stco.chunk_offset

(***************************************************************************)
(* C5 as stated: for two-track output, after offset resolution the alpha   *)
(* track's chunk offset is the color track's chunk offset plus the sum of  *)
(* the color frame sizes.  The code visits the tracks in reverse, so this  *)
(* fails.                                                                  *)
(***************************************************************************)
C5_Original_AlphaAfterColor == (Resolved /\ TwoTracks) => AlphaStco = u32_add(ColorStco, WrapSum(ColorFrames)).val
(***************************************************************************)
(* C5 amended: for two-track output, after offset resolution the color     *)
(* track's chunk offset is the alpha track's chunk offset plus the sum of  *)
(* the alpha frame sizes (32-bit wrapping), the order of the payload.      *)
(***************************************************************************)
C5_ColorAfterAlpha == (Resolved /\ TwoTracks) => ColorStco = u32_add(AlphaStco, WrapSum(AlphaFrames)).val
C5_Witness == pc = "done" /\ TwoTracks /\ Len(ColorFrames) >= 1 /\ Len(AlphaFrames) = MaxFrames /\ WrapSum(AlphaFrames) = u32_of(3) /\ u32_to_nat(ColorStco) = u32_to_nat(AlphaStco) + 3

(***************************************************************************)
(* C6 as stated: in animated mode the color track's chunk offset is the    *)
(* file offset of the first byte after the mdat header, for one track or   *)
(* two.                                                                    *)
(***************************************************************************)
C6_Original_ColorAtPayloadStart == (Resolved /\ Animated) => ColorStco = AfterMdatHeader
(***************************************************************************)
(* C6 amended: in animated mode the chunk offset of the track added last   *)
(* is the file offset of the first byte after the mdat header; that is     *)
(* the color track when it is the only track and the alpha track when      *)
(* there are two.                                                          *)
(***************************************************************************)
C6_LastTrackAtPayloadStart ==
    (Resolved /\ Animated) =>
        /\ Stbl(Tracks[Len(Tracks)]).stco.chunk_offset = AfterMdatHeader
        /\ (~TwoTracks => ColorStco = AfterMdatHeader)
        /\ (TwoTracks => AlphaStco = AfterMdatHeader)
        /\ (pc = "header" => Len(out) + 8 = u32_to_nat(AfterMdatHeader))
C6_Witness == pc = "done" /\ TwoTracks /\ AlphaStco = AfterMdatHeader /\ ColorStco # AfterMdatHeader /\ Len(out) = u32_to_nat(AlphaStco) + Len(Flatten(TheFile.mdat.data_chunks))

(***************************************************************************)
(* C7 as stated: a call with an explicitly empty frame list completes      *)
(* without panicking.  fix_stco_positions unwraps the reduce of the empty  *)
(* size table, so the call panics.                                         *)
(***************************************************************************)
C7_EmptyFrameListAccepted == (Animated /\ (ColorFrames = <<>> \/ (TwoTracks /\ AlphaFrames = <<>>))) => ~Panicked

(***************************************************************************)
(* C8: the stts entries of a track are one (run_length, duration) pair     *)
(* per maximal run of consecutive frames of equal duration, in input       *)
(* order; [1,1,1,2,2] gives [(3,1),(2,2)], [5] gives [(1,5)] and the       *)
(* empty list gives no entry; for the color and for the alpha list.        *)
(***************************************************************************)
DurationsOf(frames) == [i \in 1..Len(frames) |-> frames[i].duration_in_timescales]
RunStarts(d) == {i \in 1..Len(d) : i = 1 \/ d[i] # d[i - 1]}
RunStart(d, k) == CHOOSE st \in RunStarts(d) : Cardinality({t \in RunStarts(d) : t <= st}) = k
RunEnd(d, st) == CHOOSE j \in st..Len(d) : (\A k \in st..j : d[k] = d[st]) /\ (j = Len(d) \/ d[j + 1] # d[st])
MaximalRuns(d) == [k \in 1..Cardinality(RunStarts(d)) |-> <<RunEnd(d, RunStart(d, k)) - RunStart(d, k) + 1, u64_as_u32(d[RunStart(d, k)])>>]
SttsOf(t) == Stbl(t).stts.sample_delta
RunsExample(frames, entries) ==
    /\ (DurationsOf(frames) = <<u64_of(1), u64_of(1), u64_of(1), u64_of(2), u64_of(2)>> => entries = <<<<3, u32_of(1)>>, <<2, u32_of(2)>>>>)
    /\ (DurationsOf(frames) = <<u64_of(5)>> => entries = <<<<1, u32_of(5)>>>>)
    /\ (frames = <<>> => entries = <<>>)
C8_DurationRuns ==
    Animated =>
        /\ SttsOf(Tracks[1]) = MaximalRuns(DurationsOf(ColorFrames))
        /\ RunsExample(ColorFrames, SttsOf(Tracks[1]))
        /\ (TwoTracks => (SttsOf(Tracks[2]) = MaximalRuns(DurationsOf(AlphaFrames)) /\ RunsExample(AlphaFrames, SttsOf(Tracks[2]))))
C8_Witness == Animated /\ DurationsOf(ColorFrames) = <<u64_of(1), u64_of(1), u64_of(1), u64_of(2), u64_of(2)>> /\ SttsOf(Tracks[1]) = <<<<3, u32_of(1)>>, <<2, u32_of(2)>>>>

(***************************************************************************)
(* C9: a track whose frames are all sync frames has no stss box; a track   *)
(* with a non-sync frame has an stss box whose entry_count is the number   *)
(* of sync frames and whose entries are the 1-based indices of the sync    *)
(* frames, ascending.                                                      *)
(***************************************************************************)
SyncIndices(frames) == {i \in 1..Len(frames) : frames[i].sync}
RECURSIVE Ascending(_, _)
Ascending(S, from) == IF \A i \in S : i < from THEN <<>> ELSE LET m == CHOOSE i \in S : i >= from /\ \A j \in S : j >= from => i <= j IN <<m>> \o Ascending(S, m + 1)
SyncTableOk(frames, stss) ==
    IF \A i \in 1..Len(frames) : frames[i].sync
    THEN stss = None
    ELSE /\ IsSome(stss)
         /\ Unwrap(stss).entry_count = Cardinality(SyncIndices(frames))
         /\ Len(Unwrap(stss).sample_number) = Cardinality(SyncIndices(frames))
         /\ {Unwrap(stss).sample_number[k] : k \in 1..Len(Unwrap(stss).sample_number)} = SyncIndices(frames)
         /\ \A k \in 1..(Len(Unwrap(stss).sample_number) - 1) : Unwrap(stss).sample_number[k] < Unwrap(stss).sample_number[k + 1]
         /\ LET w == StssBox_write(Unwrap(stss)) asc == Ascending(SyncIndices(frames), 1) IN
                /\ Len(w) = 16 + 4 * Len(asc)
                /\ ReadU32(w, 12) = Len(asc)
                /\ \A k \in 1..Len(asc) : ReadU32(w, 16 + 4 * (k - 1)) = asc[k]
C9_SyncTable == Animated => (SyncTableOk(ColorFrames, Stbl(Tracks[1]).stss) /\ (TwoTracks => SyncTableOk(AlphaFrames, Stbl(Tracks[2]).stss)))
C9_Witness ==
    /\ pc = "done" /\ Animated /\ ~TwoTracks
    /\ Len(ColorFrames) = 3 /\ ColorFrames[1].sync /\ ~ColorFrames[2].sync /\ ColorFrames[3].sync
    /\ Stbl(Tracks[1]).stss = Some([entry_count |-> 2, sample_number |-> <<1, 3>>])
    /\ \E p \in 0..(Len(out) - 24) : Slice(out, p, 24) = Writer_full_box(24, FourCC_stss, 0, 0) \o Writer_u32(2) \o Writer_u32(1) \o Writer_u32(3)

(***************************************************************************)
(* C10: when AvifFile::write reaches IlocBox::write every extent offset    *)
(* of every iloc item is Absolute; the panic "absolute offset must be      *)
(* set" is never reached.                                                  *)
(***************************************************************************)
AllExtentsAbsolute(f) == \A i \in 1..Len(f.meta.iloc.items) : \A e \in 1..Len(f.meta.iloc.items[i].extents) : f.meta.iloc.items[i].extents[e].offset.kind = "Absolute"
C10_IlocAbsoluteAtWrite == pc # "panic_absolute_offset" /\ (pc \in {"stco", "header", "done"} => AllExtentsAbsolute(TheFile))
C10_Witness == pc = "header" /\ HasAlpha /\ Len(TheFile.meta.iloc.items) = 2 /\ AllExtentsAbsolute(TheFile) /\ Len(out) > 0

(***************************************************************************)
(* C11: the emitted bytes are the top-level boxes ftyp, meta, moov (only   *)
(* when present), mdat, in this order and with nothing before, between or  *)
(* after them; the whole header region reaches the sink before the first   *)
(* mdat byte; inside mdat the 8-byte header precedes the data chunks,      *)
(* which appear in the order they were pushed.                             *)
(***************************************************************************)
RECURSIVE TopLevelBoxes(_, _)
TopLevelBoxes(bytes, pos) == IF pos + 8 > Len(bytes) \/ ReadU32(bytes, pos) < 8 THEN <<>> ELSE <<[type |-> Slice(bytes, pos + 4, 4), start |-> pos, size |-> ReadU32(bytes, pos)]>> \o TopLevelBoxes(bytes, pos + ReadU32(bytes, pos))
TypesOf(boxes) == [k \in 1..Len(boxes) |-> boxes[k].type]
HeaderTypes == <<FourCC_ftyp, FourCC_meta>> \o (IF IsSome(TheFile.moov) THEN <<FourCC_moov>> ELSE <<>>)
HeaderRegion == FtypBox_write(TheFile.ftyp) \o MetaBox_write(TheFile.meta) \o (IF IsSome(TheFile.moov) THEN MoovBox_write(Unwrap(TheFile.moov)) ELSE <<>>)
Contiguous(boxes, total) == /\ Len(boxes) > 0
                            /\ boxes[1].start = 0
                            /\ \A k \in 1..(Len(boxes) - 1) : boxes[k].start + boxes[k].size = boxes[k + 1].start
                            /\ boxes[Len(boxes)].start + boxes[Len(boxes)].size = total
C11_TopLevelOrder ==
    /\ (pc \in {"new", "made", "iloc", "stco"} => out = <<>>)
    /\ (pc = "header" => LET boxes == TopLevelBoxes(out, 0) IN
            /\ out = HeaderRegion
            /\ TypesOf(boxes) = HeaderTypes
            /\ Contiguous(boxes, Len(out)))
    /\ (pc = "done" => LET boxes == TopLevelBoxes(out, 0) mdat == boxes[Len(boxes)] IN
            /\ TypesOf(boxes) = HeaderTypes \o <<FourCC_mdat>>
            /\ Contiguous(boxes, Len(out))
            /\ SubSeq(out, 1, mdat.start) = HeaderRegion
            /\ mdat.size = 8 + Len(Flatten(TheFile.mdat.data_chunks))
            /\ Slice(out, mdat.start + 8, mdat.size - 8) = Flatten(TheFile.mdat.data_chunks))
C11_Witness == pc = "done" /\ IsSome(TheFile.moov) /\ Len(TheFile.mdat.data_chunks) = 2 /\ TheFile.mdat.data_chunks[1] # TheFile.mdat.data_chunks[2] /\ Len(TopLevelBoxes(out, 0)) = 4

(***************************************************************************)
(* C12: the moov box is present iff color_frames is Some (whatever         *)
(* alpha_frames is); the major brand is avis iff the moov box is present   *)
(* and avif otherwise; avis is among the compatible brands iff the moov    *)
(* box is present.                                                         *)
(***************************************************************************)
InSeq(x, sq) == \E k \in 1..Len(sq) : sq[k] = x
EmittedMajorBrand == Slice(out, 8, 4)
EmittedCompatibleBrands == [k \in 1..((ReadU32(out, 0) - 16) \div 4) |-> Slice(out, 16 + 4 * (k - 1), 4)]
C12_ShapeFromColorFrames ==
    Called =>
        /\ (IsSome(TheFile.moov) <=> IsSome(TheArgs.color_frames))
        /\ TheFile.ftyp.major_brand = (IF IsSome(TheFile.moov) THEN FourCC_avis ELSE FourCC_avif)
        /\ (InSeq(FourCC_avis, TheFile.ftyp.compatible_brands) <=> IsSome(TheFile.moov))
        /\ (pc = "done" => /\ EmittedMajorBrand = (IF IsSome(TheArgs.color_frames) THEN FourCC_avis ELSE FourCC_avif)
                            /\ (InSeq(FourCC_avis, EmittedCompatibleBrands) <=> IsSome(TheArgs.color_frames))
                            /\ (InSeq(FourCC_moov, TypesOf(TopLevelBoxes(out, 0))) <=> IsSome(TheArgs.color_frames)))
C12_Witness == pc = "done" /\ ~IsSome(TheArgs.color_frames) /\ IsSome(TheArgs.alpha_frames) /\ ~IsSome(TheFile.moov) /\ EmittedMajorBrand = FourCC_avif /\ EmittedCompatibleBrands = <<FourCC_avif, FourCC_mif1, FourCC_miaf>>

(***************************************************************************)
(* C13: when the sink returns an error, write returns that same error and  *)
(* emits nothing further: an error in the header region means that no      *)
(* mdat byte is written, an error inside mdat stops the remaining chunks;  *)
(* when the sink does not fail the call returns Ok.                        *)
(***************************************************************************)
TheSink == TheArgs.into_output
FullFile == HeaderRegion \o Writer_basic_box(8 + Len(Flatten(TheFile.mdat.data_chunks)), FourCC_mdat) \o Flatten(TheFile.mdat.data_chunks)
SinkGivesOut == IsSome(TheSink) /\ Unwrap(TheSink).fail_at < FileLen(TheFile)
C13_SinkErrorPropagates ==
    /\ (pc \in {"new", "made", "iloc", "stco", "header"} => result = None)
    /\ (pc = "err_header" => /\ SinkGivesOut
                              /\ result = Some(Err(Unwrap(TheSink).error))
                              /\ Len(out) = Unwrap(TheSink).fail_at
                              /\ Len(out) < Len(HeaderRegion)
                              /\ out = SubSeq(HeaderRegion, 1, Len(out)))
    /\ (pc = "err_mdat" => /\ SinkGivesOut
                            /\ result = Some(Err(Unwrap(TheSink).error))
                            /\ Len(out) = Unwrap(TheSink).fail_at
                            /\ Len(out) >= Len(HeaderRegion)
                            /\ out = SubSeq(FullFile, 1, Len(out)))
    /\ (pc = "done" => ~SinkGivesOut /\ result = Some(Ok) /\ out = FullFile)
    /\ ((Called /\ SinkGivesOut) => pc # "done")
C13_Witness == pc = "err_mdat" /\ Len(TheFile.mdat.data_chunks) = 2 /\ Len(out) = Len(HeaderRegion) + 8 + Len(TheFile.mdat.data_chunks[1]) /\ result = Some(Err("BrokenPipe"))

(***************************************************************************)
(* C14: a colr property is in the property pool and associated with the    *)
(* color item iff the configured (color_primaries,                         *)
(* transfer_characteristics, matrix_coefficients, full_range) differs      *)
(* from (Bt709, Srgb, Bt601, full range); with the default values,         *)
(* however they were reached, there is no colr property and the color      *)
(* item has exactly three property associations.                           *)
(***************************************************************************)
ColrIsDefault == /\ aviffy.colr.color_primaries = ColorPrimaries_Bt709
                 /\ aviffy.colr.transfer_characteristics = TransferCharacteristics_Srgb
                 /\ aviffy.colr.matrix_coefficients = MatrixCoefficients_Bt601
                 /\ aviffy.colr.full_range_flag
PoolProps == TheFile.meta.iprp.ipco.props
ColrPositions == {k \in 1..Len(PoolProps) : PoolProps[k].kind = "Colr"}
ColorAssociations == TheFile.meta.iprp.ipma.entries[1]
OccursIn(pat, bytes) == \E p \in 0..(Len(bytes) - Len(pat)) : Slice(bytes, p, Len(pat)) = pat
C14_ColrIffNonDefault ==
    Called =>
        /\ ColorAssociations.item_id = 1
        /\ (ColrIsDefault => (ColrPositions = {} /\ Len(ColorAssociations.prop_ids) = 3))
        /\ (~ColrIsDefault => /\ ColrPositions = {4}
                               /\ PoolProps[4].box = aviffy.colr
                               /\ Len(ColorAssociations.prop_ids) = 4
                               /\ ColorAssociations.prop_ids[4] = 4)
        /\ (pc = "header" => (OccursIn(FourCC_colr, out) <=> ~ColrIsDefault))
C14_Witness == pc = "header" /\ ~aviffy.colr.full_range_flag /\ [aviffy.colr EXCEPT !.full_range_flag = TRUE] = ColrBox_default /\ ColrPositions = {4} /\ OccursIn(ColrBox_write(aviffy.colr), out) /\ HasAlpha

(***************************************************************************)
(* C15: a prem item reference from the color item (id 1) to the alpha      *)
(* item (id 2) is emitted iff the premultiplied-alpha flag is set and an   *)
(* alpha payload is supplied; with the flag set and no alpha payload the   *)
(* output is identical to the output with the flag clear.                  *)
(***************************************************************************)
Irefs == TheFile.meta.iref
PremRefs == {k \in 1..Len(Irefs) : Irefs[k].entry.typ = FourCC_prem}
EmittedPremRef == Writer_basic_box(14, FourCC_prem) \o Writer_u16(1) \o Writer_u16(1) \o Writer_u16(2)
C15_PremIffFlagAndAlpha ==
    Called =>
        /\ ((aviffy.premultiplied_alpha /\ HasAlpha) => (Cardinality(PremRefs) = 1 /\ \A k \in PremRefs : Irefs[k].entry.from_id = 1 /\ Irefs[k].entry.to_id = 2))
        /\ (~(aviffy.premultiplied_alpha /\ HasAlpha) => PremRefs = {})
        /\ (pc = "header" => /\ (OccursIn(FourCC_prem, out) <=> (aviffy.premultiplied_alpha /\ HasAlpha))
                              /\ (OccursIn(EmittedPremRef, out) <=> (aviffy.premultiplied_alpha /\ HasAlpha)))
        /\ ((pc = "done" /\ aviffy.premultiplied_alpha /\ ~HasAlpha) => out = to_vec([aviffy EXCEPT !.premultiplied_alpha = FALSE], TheArgs))
C15_Witness == pc = "done" /\ aviffy.premultiplied_alpha /\ HasAlpha /\ Cardinality(PremRefs) = 1 /\ OccursIn(EmittedPremRef, out) /\ out # to_vec([aviffy EXCEPT !.premultiplied_alpha = FALSE], TheArgs)

(***************************************************************************)
(* C16: the number of tracks follows from the frame lists only: no moov    *)
(* box when color_frames is None, even when alpha_frames is Some; one      *)
(* track (id 1) when color_frames is Some and alpha_frames is None; two    *)
(* tracks (ids 1 then 2) when both are Some; a track is built for an       *)
(* explicitly empty list as for a non-empty one.                           *)
(***************************************************************************)
TrackIds == [k \in 1..Len(Tracks) |-> Tracks[k].tkhd.track_id]
Occurrences(pat, bytes) == Cardinality({p \in 0..(Len(bytes) - Len(pat)) : Slice(bytes, p, Len(pat)) = pat})
C16_TracksFromFrameLists ==
    Called =>
        /\ (~IsSome(TheArgs.color_frames) => TheFile.moov = None)
        /\ ((IsSome(TheArgs.color_frames) /\ ~IsSome(TheArgs.alpha_frames)) => (IsSome(TheFile.moov) /\ TrackIds = <<1>>))
        /\ ((IsSome(TheArgs.color_frames) /\ IsSome(TheArgs.alpha_frames)) => (IsSome(TheFile.moov) /\ TrackIds = <<1, 2>>))
        /\ ((Animated /\ ColorFrames = <<>>) => (Stbl(Tracks[1]).stts.sample_delta = <<>> /\ Stbl(Tracks[1]).stsz.entry_size = <<>>))
        /\ ((TwoTracks /\ AlphaFrames = <<>>) => (Stbl(Tracks[2]).stts.sample_delta = <<>> /\ Stbl(Tracks[2]).stsz.entry_size = <<>>))
        /\ (pc = "header" => Occurrences(FourCC_trak, out) = (IF IsSome(TheArgs.color_frames) THEN (IF IsSome(TheArgs.alpha_frames) THEN 2 ELSE 1) ELSE 0))
C16_Witness == pc = "header" /\ TwoTracks /\ ~IsSome(TheArgs.alpha_av1_data) /\ TrackIds = <<1, 2>> /\ Occurrences(FourCC_trak, out) = 2
C16_WitnessEmptyList == pc = "made" /\ TwoTracks /\ AlphaFrames = <<>> /\ Len(ColorFrames) > 0 /\ TrackIds = <<1, 2>>

(***************************************************************************)
(* C17: the output is a function of the payloads, geometry, depth,         *)
(* timescale, frame lists and configuration: two calls with the same       *)
(* configuration and the same arguments return the same bytes and the      *)
(* same result, whatever the time of the call and whatever calls were     *)
(* made before it; no clock enters the bytes, the creation and             *)
(* modification times of mvhd, tkhd and mdhd are the constant 0.           *)
(***************************************************************************)
ZeroTimes(b) == b.creation_time = u64_of(0) /\ b.modification_time = u64_of(0)
EmittedZeroTimes(tag, bytes) == \A p \in 0..(Len(bytes) - 24) : Slice(bytes, p, 4) = tag => Slice(bytes, p + 8, 16) = [i \in 1..16 |-> 0]
SameInputs(c1, c2) == c1.self = c2.self /\ c1.args = c2.args
C17_Deterministic ==
    /\ \A c1, c2 \in returned : SameInputs(c1, c2) => (c1.out = c2.out /\ c1.result = c2.result)
    /\ (pc = "done" => \A c \in returned : SameInputs(c, [self |-> aviffy, args |-> TheArgs]) => (c.out = out /\ c.result = Unwrap(result)))
    /\ (Animated => /\ ZeroTimes(Unwrap(TheFile.moov).mvhd)
                     /\ \A k \in 1..Len(Tracks) : ZeroTimes(Tracks[k].tkhd) /\ ZeroTimes(Tracks[k].mdia.mdhd))
    /\ (pc = "header" => EmittedZeroTimes(FourCC_mvhd, out) /\ EmittedZeroTimes(FourCC_tkhd, out) /\ EmittedZeroTimes(FourCC_mdhd, out))
C17_Witness ==
    /\ pc = "done" /\ TwoTracks /\ HasAlpha /\ aviffy.premultiplied_alpha /\ clock = 1
    /\ Occurrences(FourCC_mdhd, out) = 2 /\ EmittedZeroTimes(FourCC_mdhd, out)
    /\ \E c1, c2 \in returned :
          /\ c1.at = 0 /\ c1.self = aviffy /\ c1.args = TheArgs /\ c1.out = out
          /\ c2.self # aviffy /\ c2.args = TheArgs /\ c2.out # out

(***************************************************************************)
(* C18: in AvifFile::write the stages run in strict order: the lengths     *)
(* that make the base offset are taken from the finished tree, then the    *)
(* iloc extent offsets and the stco chunk offsets are patched, and only    *)
(* then is a byte written; patching changes no length, and no box length   *)
(* and no offset field changes once a byte has been emitted.               *)
(***************************************************************************)
CmpOffset(o) == IF o.kind = "Relative" THEN <<"Relative", u32_of(o.n)>> ELSE <<"Absolute", o.n>>
CmpItem(it) == [it EXCEPT !.extents = [e \in 1..Len(it.extents) |-> [it.extents[e] EXCEPT !.offset = CmpOffset(it.extents[e].offset)]]]
Cmp(f) == IF IsSome(f) THEN Some([Unwrap(f) EXCEPT !.meta.iloc.items = [i \in 1..Len(Unwrap(f).meta.iloc.items) |-> CmpItem(Unwrap(f).meta.iloc.items[i])]]) ELSE None
C18_StageStep ==
    /\ (Cmp(file') # Cmp(file) => (out = <<>> /\ out' = <<>> /\ pc \in {"new", "made", "iloc"}))
    /\ (out' # out => (Cmp(file') = Cmp(file) /\ pc \in {"stco", "header"} /\ AllExtentsAbsolute(Unwrap(file))))
    /\ ((IsSome(file) /\ Cmp(file') # Cmp(file)) => /\ IsSome(file')
                                            /\ mdat_payload_start_offset(Unwrap(file')) = mdat_payload_start_offset(Unwrap(file))
                                            /\ FileLen(Unwrap(file')) = FileLen(Unwrap(file)))
    /\ (pc = "made" => pc' \in {"iloc", "panic_overflow"})
    /\ (pc = "iloc" => pc' \in {"stco", "panic_overflow", "panic_unwrap_none"})
    /\ (pc = "stco" => pc' \in {"header", "err_header", "panic_absolute_offset"})
    /\ (pc = "header" => pc' \in {"done", "err_mdat"})
C18_StagesInOrder == [][C18_StageStep]_vars
C18_Witness == pc = "done" /\ TwoTracks /\ HasAlpha /\ AllExtentsAbsolute(TheFile) /\ Cmp(file) # Cmp(Some(Made(aviffy, TheArgs))) /\ FileLen(TheFile) = FileLen(Made(aviffy, TheArgs)) /\ Len(out) = FileLen(TheFile)

(***************************************************************************)
(* C19: for every composite box (meta, iinf, iprp, ipco, iref, moov,      *)
(* trak, tref, mdia, minf, dinf, dref, stbl, stsd, sample entry, mdat)     *)
(* len() is the fixed header-and-fields size plus the sum of len() of      *)
(* exactly the children that write() emits, also where len() and write()   *)
(* visit the children in different orders (meta).                          *)
(***************************************************************************)
Composite(bytes, len, fixed, kids) == [bytes |-> bytes, len |-> len, fixed |-> fixed, kids |-> kids]
OptLen(o, L(_)) == IF IsSome(o) THEN <<L(Unwrap(o))>> ELSE <<>>
MetaComposites(m) == <<Composite(MetaBox_write(m), MetaBox_len(m), 12, <<HdlrBox_len(m.hdlr), PitmBox_len(m.pitm), IlocBox_len(m.iloc), IinfBox_len(m.iinf), IprpBox_len(m.iprp)>> \o MapSeq(m.iref, IrefBox_len)), Composite(IinfBox_write(m.iinf), IinfBox_len(m.iinf), 14, MapSeq(m.iinf.items, InfeBox_len)), Composite(IprpBox_write(m.iprp), IprpBox_len(m.iprp), 8, <<IpcoBox_len(m.iprp.ipco), IpmaBox_len(m.iprp.ipma)>>), Composite(IpcoBox_write(m.iprp.ipco), IpcoBox_len(m.iprp.ipco), 8, MapSeq(m.iprp.ipco.props, IpcoProp_len))>> \o [k \in 1..Len(m.iref) |-> Composite(IrefBox_write(m.iref[k]), IrefBox_len(m.iref[k]), 12, <<IrefEntryBox_len(m.iref[k].entry)>>)]
StblComposites(b) == <<Composite(StblBox_write(b), StblBox_len(b), 8, <<StsdBox_len(b.stsd), SttsBox_len(b.stts), StscBox_len(b.stsc), StszBox_len(b.stsz), StcoBox_len(b.stco)>> \o OptLen(b.stss, StssBox_len)), Composite(StsdBox_write(b.stsd), StsdBox_len(b.stsd), 16, <<SampleEntryBox_len(b.stsd.entry)>>), Composite(SampleEntryBox_write(b.stsd.entry), SampleEntryBox_len(b.stsd.entry), 86, <<Av1CBox_len(b.stsd.entry.config), CcstBox_len(b.stsd.entry.ccst)>> \o OptLen(b.stsd.entry.auxi, AuxiBox_len))>>
TrakComposites(t) == <<Composite(TrakBox_write(t), TrakBox_len(t), 8, <<TkhdBox_len(t.tkhd)>> \o OptLen(t.tref, TrefBox_len) \o OptLen(t.meta, MetaBox_len) \o <<MdiaBox_len(t.mdia)>>), Composite(MdiaBox_write(t.mdia), MdiaBox_len(t.mdia), 8, <<MdhdBox_len(t.mdia.mdhd), HdlrBox_len(t.mdia.hdlr), MinfBox_len(t.mdia.minf)>>), Composite(MinfBox_write(t.mdia.minf), MinfBox_len(t.mdia.minf), 8, <<VmhdBox_len(t.mdia.minf.vmhd), DinfBox_len(t.mdia.minf.dinf), StblBox_len(t.mdia.minf.stbl)>>), Composite(DinfBox_write(t.mdia.minf.dinf), DinfBox_len(t.mdia.minf.dinf), 8, <<DrefBox_len(t.mdia.minf.dinf.dref)>>), Composite(DrefBox_write(t.mdia.minf.dinf.dref), DrefBox_len(t.mdia.minf.dinf.dref), 16, <<UrlBox_len(t.mdia.minf.dinf.dref.url)>>)>> \o (IF IsSome(t.tref) THEN <<Composite(TrefBox_write(Unwrap(t.tref)), TrefBox_len(Unwrap(t.tref)), 8, <<ReftypeBox_len(Unwrap(t.tref).ref_type)>>)>> ELSE <<>>) \o StblComposites(Stbl(t))
MoovComposites(m) == <<Composite(MoovBox_write(m), MoovBox_len(m), 8, <<MvhdBox_len(m.mvhd)>> \o MapSeq(m.tracks, TrakBox_len))>> \o Flatten(MapSeq(m.tracks, TrakComposites))
FileComposites(f) == MetaComposites(f.meta) \o (IF IsSome(f.moov) THEN MoovComposites(Unwrap(f.moov)) ELSE <<>>)
SeqBag(sq) == [x \in {sq[i] : i \in 1..Len(sq)} |-> Cardinality({i \in 1..Len(sq) : sq[i] = x})]
SizesOf(boxes) == [k \in 1..Len(boxes) |-> boxes[k].size]
CompositeOk(c) == LET kids == TopLevelBoxes(c.bytes, c.fixed) IN
    /\ c.len = c.fixed + SumSeq(c.kids)
    /\ Len(c.bytes) = c.len
    /\ Len(kids) = Len(c.kids)
    /\ (Len(kids) > 0 => (kids[1].start = c.fixed /\ kids[Len(kids)].start + kids[Len(kids)].size = Len(c.bytes)))
    /\ (Len(kids) = 0 => Len(c.bytes) = c.fixed)
    /\ (\A k \in 1..(Len(kids) - 1) : kids[k].start + kids[k].size = kids[k + 1].start)
    /\ SeqBag(SizesOf(kids)) = SeqBag(c.kids)
MdatOk(b) == MdatBox_len(b) = 8 + SumSeq(MapSeq(b.data_chunks, Len)) /\ Len(MdatBox_write(b)) = MdatBox_len(b) /\ Slice(MdatBox_write(b), 8, MdatBox_len(b) - 8) = Flatten(b.data_chunks)
C19_CompositeLen == IlocFixed => LET cs == FileComposites(TheFile) IN MdatOk(TheFile.mdat) /\ \A k \in 1..Len(cs) : CompositeOk(cs[k])
C19_Witness == pc = "done" /\ TwoTracks /\ Len(TheFile.meta.iref) = 2 /\ IsSome(Stbl(Tracks[1]).stss) /\ Len(FileComposites(TheFile)) = 24 /\ SizesOf(TopLevelBoxes(MetaBox_write(TheFile.meta), 12)) # <<HdlrBox_len(TheFile.meta.hdlr), PitmBox_len(TheFile.meta.pitm), IlocBox_len(TheFile.meta.iloc), IinfBox_len(TheFile.meta.iinf), IprpBox_len(TheFile.meta.iprp)>> \o MapSeq(TheFile.meta.iref, IrefBox_len)

(***************************************************************************)
(* C20: an absent optional child (stss in stbl, tref and meta in trak,     *)
(* auxi in the sample entry, the iref list in meta) contributes zero       *)
(* bytes to len() and to write() of its parent: the parent's len() with    *)
(* the child absent is its len() with the child present minus the          *)
(* child's len(), and its bytes are those with the child present, the      *)
(* child's bytes cut out (the size field apart).                           *)
(***************************************************************************)
CutOut(with, child, without) ==
    /\ Len(without) = Len(with) - Len(child)
    /\ ReadU32(without, 0) = ReadU32(with, 0) - Len(child)
    /\ \E p \in 4..(Len(with) - Len(child)) :
          /\ Slice(with, p, Len(child)) = child
          /\ SubSeq(with, 5, p) \o SubSeq(with, p + Len(child) + 1, Len(with)) = SubSeq(without, 5, Len(without))
OrElse(o, x) == IF IsSome(o) THEN o ELSE Some(x)
StblOptional(b) == LET with == [b EXCEPT !.stss = OrElse(b.stss, SampleStss)] without == [b EXCEPT !.stss = None] IN
    /\ StblBox_len(without) = StblBox_len(with) - StssBox_len(Unwrap(with.stss))
    /\ CutOut(StblBox_write(with), StssBox_write(Unwrap(with.stss)), StblBox_write(without))
    /\ ~OccursIn(FourCC_stss, StblBox_write(without))
EntryOptional(b) == LET with == [b EXCEPT !.auxi = OrElse(b.auxi, SampleAuxi)] without == [b EXCEPT !.auxi = None] IN
    /\ SampleEntryBox_len(without) = SampleEntryBox_len(with) - AuxiBox_len(Unwrap(with.auxi))
    /\ CutOut(SampleEntryBox_write(with), AuxiBox_write(Unwrap(with.auxi)), SampleEntryBox_write(without))
    /\ ~OccursIn(FourCC_auxi, SampleEntryBox_write(without))
TrakOptionalTref(b) == LET with == [b EXCEPT !.tref = OrElse(b.tref, SampleTref)] without == [b EXCEPT !.tref = None] IN
    /\ TrakBox_len(without) = TrakBox_len(with) - TrefBox_len(Unwrap(with.tref))
    /\ CutOut(TrakBox_write(with), TrefBox_write(Unwrap(with.tref)), TrakBox_write(without))
    /\ ~OccursIn(FourCC_tref, TrakBox_write(without))
TrakOptionalMeta(b) == LET with == [b EXCEPT !.meta = OrElse(b.meta, TheFile.meta)] without == [b EXCEPT !.meta = None] IN
    /\ TrakBox_len(without) = TrakBox_len(with) - MetaBox_len(Unwrap(with.meta))
    /\ CutOut(TrakBox_write(with), MetaBox_write(Unwrap(with.meta)), TrakBox_write(without))
    /\ ~OccursIn(FourCC_meta, TrakBox_write(without))
MetaOptionalIref(b) == LET with == [b EXCEPT !.iref = IF b.iref = <<>> THEN SampleIrefs ELSE b.iref] without == [b EXCEPT !.iref = <<>>] IN
    /\ MetaBox_len(without) = MetaBox_len(with) - SumSeq(MapSeq(with.iref, IrefBox_len))
    /\ CutOut(MetaBox_write(with), Flatten(MapSeq(with.iref, IrefBox_write)), MetaBox_write(without))
    /\ ~OccursIn(FourCC_iref, MetaBox_write(without))
C20_AbsentChildIsEmpty ==
    /\ (pc = "stbl" => (out = StblBox_write(Stbl(Tracks[1])) /\ Len(out) = StblBox_len(Stbl(Tracks[1])) /\ StblOptional(Stbl(Tracks[1]))))
    /\ (pc = "entry" => (out = SampleEntryBox_write(Stbl(Tracks[1]).stsd.entry) /\ Len(out) = SampleEntryBox_len(Stbl(Tracks[1]).stsd.entry) /\ EntryOptional(Stbl(Tracks[1]).stsd.entry)))
    /\ (pc = "trak" => (out = TrakBox_write(Tracks[1]) /\ Len(out) = TrakBox_len(Tracks[1]) /\ TrakOptionalTref(Tracks[1]) /\ TrakOptionalMeta(Tracks[1])))
    /\ (pc = "meta" => (out = MetaBox_write(TheFile.meta) /\ Len(out) = MetaBox_len(TheFile.meta) /\ MetaOptionalIref(TheFile.meta)))
C20_Witness == pc = "trak" /\ ~IsSome(Tracks[1].tref) /\ IsSome(Tracks[1].meta) /\ ~IsSome(Stbl(Tracks[1]).stss) /\ IsSome(Stbl(Tracks[1]).stsd.entry.auxi) /\ OccursIn(MetaBox_write(TheFile.meta), out) /\ ~OccursIn(FourCC_tref, out)

(***************************************************************************)
(* C21: every property id of every ipma entry, the essential bit 0x80      *)
(* masked off, is a 1-based index into the ipco pool and names the         *)
(* property that was pushed when the index was returned; later pushes      *)
(* only append.  Color: ispe, pixi(3), av1C, optional colr; alpha: the     *)
(* shared ispe, pixi(1), the alpha av1C, auxC.                             *)
(***************************************************************************)
IpmaEntries == TheFile.meta.iprp.ipma.entries
Unmasked(id) == id % 128
Essential(id) == id >= 128
Named(id) == PoolProps[Unmasked(id)]
IdsInRange == \A e \in 1..Len(IpmaEntries) : \A k \in 1..Len(IpmaEntries[e].prop_ids) : Unmasked(IpmaEntries[e].prop_ids[k]) \in 1..Len(PoolProps)
IsPrefix(sq, whole) == Len(sq) <= Len(whole) /\ sq = SubSeq(whole, 1, Len(sq))
PushKept(pushed) == IsPrefix(pushed.box.props, PoolProps) /\ pushed.id = Len(pushed.box.props)
ColorPropsNamed == LET ids == IpmaEntries[1].prop_ids IN
    /\ Named(ids[1]) = [kind |-> "Ispe", box |-> [width |-> TheArgs.width, height |-> TheArgs.height]]
    /\ Named(ids[2]) = [kind |-> "Pixi", box |-> [channels |-> 3, depth |-> TheArgs.depth_bits]]
    /\ Named(ids[3]).kind = "Av1C" /\ ~Named(ids[3]).box.monochrome /\ Essential(ids[3])
    /\ ~Essential(ids[1]) /\ ~Essential(ids[2])
    /\ (Len(ids) = 4 => (Named(ids[4]) = [kind |-> "Colr", box |-> aviffy.colr] /\ ~Essential(ids[4])))
    /\ Len(ids) \in {3, 4}
AlphaPropsNamed == LET ids == IpmaEntries[2].prop_ids IN
    /\ Len(ids) = 4
    /\ ids[1] = IpmaEntries[1].prop_ids[1]
    /\ Named(ids[2]) = [kind |-> "Pixi", box |-> [channels |-> 1, depth |-> TheArgs.depth_bits]]
    /\ Named(ids[3]).kind = "Av1C" /\ Named(ids[3]).box.monochrome /\ Essential(ids[3])
    /\ Named(ids[4]) = [kind |-> "AuxC", box |-> [urn |-> Str_alpha_urn]]
    /\ ~Essential(ids[1]) /\ ~Essential(ids[2]) /\ ~Essential(ids[4])
C21_PropertyIndices ==
    Called =>
        /\ IdsInRange
        /\ ColorPropsNamed
        /\ (HasAlpha => AlphaPropsNamed)
        /\ PushKept(ipco_ispe(TheArgs)) /\ PushKept(ipco_pixi_3(TheArgs)) /\ PushKept(ipco_av1c_color(TheArgs))
        /\ (colr_is_set(aviffy) => PushKept(ipco_colr(aviffy, TheArgs)))
        /\ (HasAlpha => (PushKept(ipco_pixi_1(aviffy, TheArgs)) /\ PushKept(ipco_av1c_alpha(aviffy, TheArgs)) /\ PushKept(ipco_auxc(aviffy, TheArgs))))
C21_Witness == Called /\ HasAlpha /\ colr_is_set(aviffy) /\ Len(PoolProps) = 7 /\ IpmaEntries[1].prop_ids = <<1, 2, 131, 4>> /\ IpmaEntries[2].prop_ids = <<1, 5, 134, 7>> /\ pc = "done"

(***************************************************************************)
(* C22: every file has an item with id 1 (color) and, iff an alpha         *)
(* payload is supplied, a second item with id 2 (alpha); item ids are      *)
(* unique, there are never more than two items, the primary item is id 1,  *)
(* and iinf, iloc and ipma hold exactly one entry per item.                *)
(***************************************************************************)
IdsOf(sq, Id(_)) == [k \in 1..Len(sq) |-> Id(sq[k])]
InfeId(e) == e.id
IpmaItemId(e) == e.item_id
ExpectedItemIds == IF IsSome(TheArgs.alpha_av1_data) THEN {1, 2} ELSE {1}
OnePerItem(ids) == Len(ids) = Cardinality(ExpectedItemIds) /\ {ids[k] : k \in 1..Len(ids)} = ExpectedItemIds
C22_Items ==
    Called =>
        /\ OnePerItem(IdsOf(TheFile.meta.iinf.items, InfeId))
        /\ OnePerItem(IdsOf(TheFile.meta.iloc.items, InfeId))
        /\ OnePerItem(IdsOf(IpmaEntries, IpmaItemId))
        /\ TheFile.meta.pitm = 1
        /\ Len(TheFile.meta.iinf.items) <= 2
        /\ (pc = "done" => /\ ParsedPrimaryId(out) = 1
                            /\ ParsedIlocCount(out) = Cardinality(ExpectedItemIds)
                            /\ \A id \in ExpectedItemIds : ParsedHasItem(out, id)
                            /\ Occurrences(FourCC_infe, out) = Cardinality(ExpectedItemIds))
C22_Witness == pc = "done" /\ HasAlpha /\ AlphaData = <<>> /\ IdsOf(TheFile.meta.iinf.items, InfeId) = <<1, 2>> /\ ParsedIlocCount(out) = 2 /\ Occurrences(FourCC_infe, out) = 2

(***************************************************************************)
(* C23: an auxl item reference from the alpha item (id 2) to the color     *)
(* item (id 1) is emitted iff an alpha payload is supplied, and a file     *)
(* never holds more than one reference of a kind (at most one auxl, at     *)
(* most one prem).                                                         *)
(***************************************************************************)
AuxlRefs == {k \in 1..Len(Irefs) : Irefs[k].entry.typ = FourCC_auxl}
EmittedAuxlRef == Writer_basic_box(14, FourCC_auxl) \o Writer_u16(2) \o Writer_u16(1) \o Writer_u16(1)
C23_AuxlIffAlpha ==
    Called =>
        /\ (HasAlpha => (Cardinality(AuxlRefs) = 1 /\ \A k \in AuxlRefs : Irefs[k].entry.from_id = 2 /\ Irefs[k].entry.to_id = 1))
        /\ (~HasAlpha => Irefs = <<>>)
        /\ Cardinality(PremRefs) <= 1
        /\ AuxlRefs \cup PremRefs = 1..Len(Irefs)
        /\ (pc = "header" => /\ Occurrences(EmittedAuxlRef, out) = (IF HasAlpha THEN 1 ELSE 0)
                              /\ Occurrences(FourCC_iref, out) = Len(Irefs)
                              /\ Occurrences(FourCC_prem, out) <= 1)
C23_Witness == pc = "header" /\ HasAlpha /\ ~aviffy.premultiplied_alpha /\ TwoTracks /\ Len(Irefs) = 1 /\ Occurrences(EmittedAuxlRef, out) = 1 /\ Occurrences(FourCC_auxl, out) = 2

(***************************************************************************)
(* C24: the stsz table of a track is a passthrough of the track's frame    *)
(* list: sample_count is the number of frames and entry i is the size of   *)
(* frame i, in input order, equal sizes not merged; stsc                   *)
(* samples_per_chunk is the same frame count.                              *)
(***************************************************************************)
U32Bytes(x) == <<x.hi \div 256, x.hi % 256, x.lo \div 256, x.lo % 256>>
SizePassthrough(frames, stbl) == LET w == StszBox_write(stbl.stsz) IN
    /\ stbl.stsz.sample_count = Len(frames)
    /\ Len(stbl.stsz.entry_size) = Len(frames)
    /\ \A i \in 1..Len(frames) : stbl.stsz.entry_size[i] = frames[i].size
    /\ stbl.stsc.samples_per_chunk = Len(frames)
    /\ ReadU32(w, 16) = Len(frames)
    /\ Len(w) = 20 + 4 * Len(frames)
    /\ \A i \in 1..Len(frames) : Slice(w, 20 + 4 * (i - 1), 4) = U32Bytes(frames[i].size)
    /\ ReadU32(StscBox_write(stbl.stsc), 20) = Len(frames)
C24_SizePassthrough == Animated => (SizePassthrough(ColorFrames, Stbl(Tracks[1])) /\ (TwoTracks => SizePassthrough(AlphaFrames, Stbl(Tracks[2]))))
C24_Witness == TwoTracks /\ Len(AlphaFrames) = 2 /\ AlphaFrames[1].size = AlphaFrames[2].size /\ Stbl(Tracks[2]).stsz.entry_size = <<u32_MAX, u32_MAX>> /\ Stbl(Tracks[2]).stsz.sample_count = 2

(***************************************************************************)
(* C25 as stated: in the emitted stts table no two consecutive entries     *)
(* carry the same duration value, whatever the 64-bit durations of the     *)
(* frames.  The loop compares the 64-bit durations and stores their low    *)
(* 32 bits, so two frames whose durations differ by a multiple of 2^32     *)
(* give two consecutive entries with the same stored duration.             *)
(***************************************************************************)
SttsDurationBytes(stts, k) == Slice(SttsBox_write(stts), 16 + 8 * (k - 1) + 4, 4)
NoEqualNeighbours(stts) == \A k \in 1..(Len(stts.sample_delta) - 1) :
    /\ stts.sample_delta[k][2] # stts.sample_delta[k + 1][2]
    /\ SttsDurationBytes(stts, k) # SttsDurationBytes(stts, k + 1)
C25_NoEqualNeighbours == Animated => (NoEqualNeighbours(Stbl(Tracks[1]).stts) /\ (TwoTracks => NoEqualNeighbours(Stbl(Tracks[2]).stts)))

(***************************************************************************)
(* C29: for every frame sequence the run lengths of the stts entries sum   *)
(* to the number of frames, every run length is at least 1, and repeating  *)
(* each entry's duration run_length times gives the input durations in     *)
(* order, each taken modulo 2^32.                                          *)
(***************************************************************************)
RECURSIVE Expand(_)
Expand(entries) == IF entries = <<>> THEN <<>> ELSE [i \in 1..entries[1][1] |-> entries[1][2]] \o Expand(Tail(entries))
RunLengths(entries) == [k \in 1..Len(entries) |-> entries[k][1]]
Low32(frames) == [i \in 1..Len(frames) |-> frames[i].duration_in_timescales.lo]
RunsExpand(frames, entries) ==
    /\ SumSeq(RunLengths(entries)) = Len(frames)
    /\ \A k \in 1..Len(entries) : entries[k][1] >= 1
    /\ Expand(entries) = Low32(frames)
C29_RunsExpand == Animated => (RunsExpand(ColorFrames, SttsOf(Tracks[1])) /\ (TwoTracks => RunsExpand(AlphaFrames, SttsOf(Tracks[2]))))
C29_Witness ==
    /\ TwoTracks
    /\ DurationsOf(ColorFrames) = <<u64_of(1), u64_of(1)>> /\ SttsOf(Tracks[1]) = <<<<2, u32_of(1)>>>>
    /\ DurationsOf(AlphaFrames) = <<Duration32Wrap>> /\ Expand(SttsOf(Tracks[2])) = <<u32_of(1)>>

(***************************************************************************)
(* C30 as stated: the mdhd duration of every track, the alpha track        *)
(* included, is the sum of the color frames' durations, in the tree and    *)
(* in the emitted mdhd box.  The sum is accumulated in a u64: when it      *)
(* passes 2^64 - 1 a build with overflow checks panics in make_boxes and   *)
(* a build without stores the wrapped sum.                                 *)
(***************************************************************************)
RECURSIVE ExactSum(_)
ExactSum(frames) == IF frames = <<>> THEN [val |-> u64_of(0), fits |-> TRUE] ELSE LET rest == ExactSum(SubSeq(frames, 1, Len(frames) - 1)) sum == u64_add(rest.val, frames[Len(frames)].duration_in_timescales) IN [val |-> sum.val, fits |-> rest.fits /\ ~sum.overflow]
U64Bytes(d) == U32Bytes(d.hi) \o U32Bytes(d.lo)
MdhdIsColorSum(t) ==
    /\ ExactSum(ColorFrames).fits
    /\ t.mdia.mdhd.duration = ExactSum(ColorFrames).val
    /\ Slice(MdhdBox_write(t.mdia.mdhd), 32, 8) = U64Bytes(ExactSum(ColorFrames).val)
C30_MdhdColorDuration == Animated => \A k \in 1..Len(Tracks) : MdhdIsColorSum(Tracks[k])

(***************************************************************************)
(* C26: fix_iloc_positions and fix_stco_positions change offset values     *)
(* only: apart from the iloc extent offsets and the stco chunk offsets     *)
(* the tree is the same before and after, and so is the len() of every     *)
(* box, so the base offset taken before patching is the position of the    *)
(* first mdat payload byte of the emitted file.                            *)
(***************************************************************************)
EraseExtent(ex) == [ex EXCEPT !.offset = Absolute(u32_of(0))]
EraseItem(it) == [it EXCEPT !.extents = [e \in 1..Len(it.extents) |-> EraseExtent(it.extents[e])]]
EraseTrack(t) == [t EXCEPT !.mdia.minf.stbl.stco.chunk_offset = u32_of(0)]
EraseOffsets(f) == [f EXCEPT !.meta.iloc.items = [i \in 1..Len(f.meta.iloc.items) |-> EraseItem(f.meta.iloc.items[i])],
                             !.moov = IF IsSome(f.moov) THEN Some([Unwrap(f.moov) EXCEPT !.tracks = [k \in 1..Len(Unwrap(f.moov).tracks) |-> EraseTrack(Unwrap(f.moov).tracks[k])]]) ELSE None]
TrackLens(t) == <<TrakBox_len(t), TkhdBox_len(t.tkhd), MdiaBox_len(t.mdia), MinfBox_len(t.mdia.minf), StblBox_len(Stbl(t)), StsdBox_len(Stbl(t).stsd), SttsBox_len(Stbl(t).stts), StscBox_len(Stbl(t).stsc), StszBox_len(Stbl(t).stsz), StcoBox_len(Stbl(t).stco)>>
LensOf(f) == <<FtypBox_len(f.ftyp), MetaBox_len(f.meta), HdlrBox_len(f.meta.hdlr), PitmBox_len(f.meta.pitm), IlocBox_len(f.meta.iloc), IinfBox_len(f.meta.iinf), IprpBox_len(f.meta.iprp), moov_len(f), MdatBox_len(f.mdat)>>
    \o (IF IsSome(f.moov) THEN Flatten([k \in 1..Len(Unwrap(f.moov).tracks) |-> TrackLens(Unwrap(f.moov).tracks[k])]) ELSE <<>>)
PayloadAt(bytes, f, base) == SubSeq(bytes, base + 1, base + Len(Flatten(f.mdat.data_chunks))) = Flatten(f.mdat.data_chunks)
C26_Step ==
    /\ (pc \in {"made", "iloc"} =>
            /\ EraseOffsets(Unwrap(file')) = EraseOffsets(Unwrap(file))
            /\ LensOf(Unwrap(file')) = LensOf(Unwrap(file))
            /\ mdat_payload_start_offset(Unwrap(file')) = mdat_payload_start_offset(Unwrap(file)))
    /\ (pc' = "header" => LET made == Made(aviffy, Unwrap(args)) IN
            /\ mdat_payload_start_offset(made) = u32_of(Len(out') + 8)
            /\ out' = header_bytes(Unwrap(file')))
    /\ (pc' = "done" => LET made == Made(aviffy, Unwrap(args)) IN
            /\ Len(out') = FileLen(made)
            /\ PayloadAt(out', made, u32_to_nat(mdat_payload_start_offset(made)))
            /\ u32_to_nat(mdat_payload_start_offset(made)) + Len(Flatten(made.mdat.data_chunks)) = Len(out'))
C26_OnlyOffsetsChange == [][C26_Step]_vars
C26_Witness ==
    /\ pc = "done" /\ TwoTracks /\ HasAlpha
    /\ Cmp(file) # Cmp(Some(Made(aviffy, TheArgs)))
    /\ ColorStco # u32_of(1) /\ AlphaStco # u32_of(1)
    /\ EraseOffsets(TheFile) = EraseOffsets(Made(aviffy, TheArgs))
    /\ LensOf(TheFile) = LensOf(Made(aviffy, TheArgs))
    /\ PayloadAt(out, TheFile, u32_to_nat(mdat_payload_start_offset(Made(aviffy, TheArgs))))

(***************************************************************************)
(* C27: when the file length fits in 32 bits, each item's resolved extent  *)
(* [offset, offset + len) lies inside the mdat payload of the emitted      *)
(* file, the color and alpha extents do not overlap, and together the      *)
(* extents cover the payload exactly once.                                 *)
(***************************************************************************)
FitsIn32 == Called /\ ~fix_iloc_overflows(Made(aviffy, TheArgs))
IlocItems == TheFile.meta.iloc.items
ExtentPositions(i) == LET ex == IlocItems[i].extents[1] o == u32_to_nat(ex.offset.n) IN o..(o + ex.len - 1)
PayloadPositions == LET n == FileLen(TheFile) IN (n - Len(Flatten(TheFile.mdat.data_chunks)))..(n - 1)
C27_ExtentsTilePayload == (FitsIn32 /\ AllExtentsAbsolute(TheFile)) => LET payload == PayloadPositions IN
    /\ \A i \in 1..Len(IlocItems) : Len(IlocItems[i].extents) = 1 /\ ExtentPositions(i) \subseteq payload
    /\ \A i, j \in 1..Len(IlocItems) : i # j => ExtentPositions(i) \cap ExtentPositions(j) = {}
    /\ UNION {ExtentPositions(i) : i \in 1..Len(IlocItems)} = payload
    /\ (pc = "done" => (payload \subseteq 0..(Len(out) - 1) /\ \A p \in payload : \E i \in 1..Len(IlocItems) : p \in ExtentPositions(i)))
C27_Witness ==
    /\ pc = "done" /\ HasAlpha /\ AllExtentsAbsolute(TheFile)
    /\ Len(IlocItems) = 2 /\ PayloadPositions = (Len(out) - 3)..(Len(out) - 1)
    /\ ExtentPositions(2) = {Len(out) - 3}
    /\ ExtentPositions(1) = {Len(out) - 2, Len(out) - 1}

(***************************************************************************)
(* C28: in animated output with an alpha payload whose length is the sum   *)
(* of the alpha frame sizes, after offset resolution the alpha track's     *)
(* chunk offset is the alpha item's absolute iloc offset and the color     *)
(* track's chunk offset is the color item's absolute iloc offset.          *)
(***************************************************************************)
AlphaSizesMatch == TwoTracks /\ HasAlpha /\ WrapSum(AlphaFrames) = u32_of(Len(AlphaData))
ItemOffset(id) == IlocItemOf(TheFile, id).extents[1].offset.n
C28_TracksPointAtItems == (Resolved /\ AlphaSizesMatch) =>
    /\ AlphaStco = ItemOffset(alpha_image_id)
    /\ ColorStco = ItemOffset(color_image_id)
C28_Witness ==
    /\ pc = "done" /\ AlphaSizesMatch /\ Len(ColorFrames) = 2
    /\ AlphaStco = ItemOffset(alpha_image_id) /\ ColorStco = ItemOffset(color_image_id)
    /\ u32_to_nat(ColorStco) = u32_to_nat(AlphaStco) + 1
    /\ u32_to_nat(AlphaStco) = Len(out) - 3

====
